---------------------------- MODULE Spec2Model ----------------------------
(***************************************************************************)
(* A model of the aws-lc-rs safety layer over the native engine:           *)
(*   - the construction functions of ec.rs and rsa/key.rs and the          *)
(*     ownership of the native objects they allocate (specification Spec); *)
(*   - the ECDSA signature format conversions of ec.rs, at byte level      *)
(*     (specification SpecSig);                                            *)
(*   - the verification entry point verify_sig (specification SpecVerify). *)
(* Bytes are naturals 0..255, byte strings are sequences of bytes.         *)
(***************************************************************************)
EXTENDS Integers, Sequences, FiniteSets, TLC

VARIABLES
    cfg_fips,   \* the "fips" cargo feature of the build (ec.rs:16-19, 294-302)
    phase,      \* Spec: "idle", "returned" (a function returned), "dropped"
    fn,         \* Spec: the construction function that ran
    input,      \* Spec: its arguments and what the engine did in the run
    heap,       \* Spec: the native objects, by the name of the local holding them
    result,     \* Spec: what the function returned
    trace,      \* Spec: the native calls and wrapper operations, in order
    sigAlg,     \* SpecSig: the AlgorithmID of the conversion
    sigFmt,     \* SpecSig: the encoding of sigIn, "asn1" or "fixed"
    sigIn,      \* SpecSig: the input byte string
    sigStage,   \* SpecSig: "input", "converted", "roundtrip"
    sigNative,  \* SpecSig: whether the native allocations of the calls succeeded
    sigOut,     \* SpecSig: the result of the conversion
    sigBack,    \* SpecSig: the result of converting sigOut back
    vIn,        \* SpecVerify: the inputs of verify_sig
    vStage,     \* SpecVerify: "input", "returned"
    vOut,       \* SpecVerify: what verify_sig returned
    vCalls,     \* SpecVerify: the native calls of the signature path, in order
    mFn,        \* SpecMarshal: the marshaling function that ran
    mIn,        \* SpecMarshal: its arguments
    mOut,       \* SpecMarshal: what it returned
    mBack,      \* SpecMarshal: the point decoded from the bytes in mOut
    pns,        \* SpecNonce: a PredictableNonceSequence
    uns1,       \* SpecNonce: the UnpredictableNonceSequence of new/starting_from
    uns2,       \* SpecNonce: one rebuilt with using_key/using_key_and_position
    nsKey,      \* SpecNonce: the NonceSequenceKey returned alongside uns1
    nsLog,      \* SpecNonce: how each sequence was built, its advances, its last nonce
    indicator,  \* SpecIndicator: the native service indicator, shared by the threads
    thr,        \* SpecIndicator: each thread's position, current call and verdicts
    kps,        \* SpecKeyPair: the rsa KeyPair values, by slot
    kpThr       \* SpecKeyPair: each thread's call on a shared KeyPair

vars == <<cfg_fips, phase, fn, input, heap, result, trace,
          sigAlg, sigFmt, sigIn, sigStage, sigNative, sigOut, sigBack,
          vIn, vStage, vOut, vCalls,
          mFn, mIn, mOut, mBack,
          pns, uns1, uns2, nsKey, nsLog,
          indicator, thr,
          kps, kpThr>>

ownVars == <<phase, fn, input, heap, result, trace>>
sigVars == <<sigAlg, sigFmt, sigIn, sigStage, sigNative, sigOut, sigBack>>
verVars == <<vIn, vStage, vOut, vCalls>>
marVars == <<mFn, mIn, mOut, mBack>>
nonceVars == <<pns, uns1, uns2, nsKey, nsLog>>
indVars == <<indicator, thr>>
kpVars == <<kps, kpThr>>
laterVars == <<indVars, kpVars>>
extVars == <<marVars, nonceVars, laterVars>>

-----------------------------------------------------------------------------
(* Bounds of the model.                                                    *)

\* Short big-endian magnitudes are 0..MaxShort bytes long.
MaxShort == 2
\* DER integers are up to fixed_len + MaxOver bytes long.
MaxOver == 1

-----------------------------------------------------------------------------
(* Byte strings.                                                           *)

Zeros(n) == [i \in 1..n |-> 0]

Min(S) == CHOOSE x \in S : \A y \in S : x <= y

\* The big-endian magnitude of a byte string: its leading zero bytes removed.
StripLeadingZeros(b) ==
    LET nz == {i \in 1..Len(b) : b[i] # 0}
    IN  IF nz = {} THEN <<>> ELSE SubSeq(b, Min(nz), Len(b))

\* AlgorithmID (ec.rs:99-104).
AlgorithmID == {"ECDSA_P256", "ECDSA_P384", "ECDSA_P521", "ECDSA_P256K1"}

ecdsa_fixed_number_byte_size_p521_as_p384(alg_id) ==
    CASE alg_id \in {"ECDSA_P256", "ECDSA_P256K1"} -> 32
      [] alg_id = "ECDSA_P384" -> 48
      [] alg_id = "ECDSA_P521" -> 48

ecdsa_fixed_number_byte_size(alg_id) ==
    CASE alg_id \in {"ECDSA_P256", "ECDSA_P256K1"} -> 32
      [] alg_id = "ECDSA_P384" -> 48
      [] alg_id = "ECDSA_P521" -> 66

-----------------------------------------------------------------------------
(* The native engine's big integers and ECDSA_SIG objects, by value.       *)
(* A BIGNUM is represented by its minimal big-endian magnitude.            *)

\* DetachableLcPtr::try_from(&[u8]) = BN_bin2bn: big-endian unsigned bytes.
BN_bin2bn(bytes) == StripLeadingZeros(bytes)

\* ConstPointer<BIGNUM>::to_be_bytes = BN_bn2bin: minimal length, no sign byte.
to_be_bytes(bn) == bn

\* DER definite length, minimal form.
DerLen(n) ==
    IF n < 128 THEN <<n>>
    ELSE IF n < 256 THEN <<129, n>>
    ELSE <<130, n \div 256, n % 256>>

\* DER INTEGER of a non-negative big integer: a 0x00 byte goes first when the
\* top bit of the magnitude is set, and zero is the single byte 0x00.
DerInteger(bn) ==
    LET c == IF bn = <<>> THEN <<0>>
             ELSE IF bn[1] >= 128 THEN <<0>> \o bn ELSE bn
    IN  <<2>> \o DerLen(Len(c)) \o c

\* ECDSA_SIG_to_bytes: SEQUENCE { INTEGER r, INTEGER s }.
ECDSA_SIG_to_bytes(sig) ==
    LET body == DerInteger(sig.r) \o DerInteger(sig.s)
    IN  <<48>> \o DerLen(Len(body)) \o body

DerBad == [ok |-> FALSE, from |-> 0, to |-> 0, next |-> 0]

DerContent(b, start, n, last) ==
    IF start + n - 1 > last THEN DerBad
    ELSE [ok |-> TRUE, from |-> start, to |-> start + n - 1, next |-> start + n]

\* One DER element with the given tag at position pos of b[1..last].
DerElem(b, pos, tag, last) ==
    IF pos + 1 > last \/ b[pos] # tag THEN DerBad
    ELSE LET l1 == b[pos + 1]
         IN  IF l1 < 128 THEN DerContent(b, pos + 2, l1, last)
             ELSE IF l1 = 129
                  THEN IF pos + 2 > last \/ b[pos + 2] < 128 THEN DerBad
                       ELSE DerContent(b, pos + 3, b[pos + 2], last)
             ELSE IF l1 = 130
                  THEN IF pos + 3 > last \/ b[pos + 2] = 0 THEN DerBad
                       ELSE DerContent(b, pos + 4,
                                       b[pos + 2] * 256 + b[pos + 3], last)
             ELSE DerBad

\* The content of a DER INTEGER must be non-empty, non-negative and minimal.
DerUnsignedOk(c) ==
    /\ Len(c) >= 1
    /\ c[1] < 128
    /\ (Len(c) > 1 /\ c[1] = 0) => c[2] >= 128

\* ECDSA_SIG_from_bytes: null unless the whole input is one DER signature.
ECDSA_SIG_from_bytes(b) ==
    LET null == [ok |-> FALSE, r |-> <<>>, s |-> <<>>]
        seq  == DerElem(b, 1, 48, Len(b))
    IN  IF ~seq.ok \/ seq.next # Len(b) + 1 THEN null
        ELSE LET ri == DerElem(b, seq.from, 2, seq.to)
             IN  IF ~ri.ok THEN null
                 ELSE LET si == DerElem(b, ri.next, 2, seq.to)
                          rc == SubSeq(b, ri.from, ri.to)
                      IN  IF ~si.ok \/ si.next # seq.to + 1 THEN null
                          ELSE LET sc == SubSeq(b, si.from, si.to)
                               IN  IF ~DerUnsignedOk(rc) \/ ~DerUnsignedOk(sc)
                                   THEN null
                                   ELSE [ok |-> TRUE,
                                         r |-> StripLeadingZeros(rc),
                                         s |-> StripLeadingZeros(sc)]

-----------------------------------------------------------------------------
(* Signature format conversion (ec.rs:529-587, 214-232), by value.         *)

\* Result<bytes, error>, and the third outcome of a Rust call: a panic.
Ok(v)  == [tag |-> "Ok", err |-> "", val |-> v]
Err(e) == [tag |-> "Err", err |-> e, val |-> <<>>]
Panic  == [tag |-> "Panic", err |-> "", val |-> <<>>]

\* Result<LcPtr<ECDSA_SIG>, ()>, the ECDSA_SIG by the value of its r and s.
SigOk(r, s) == [tag |-> "Ok", err |-> "", r |-> r, s |-> s]
SigErr(e)   == [tag |-> "Err", err |-> e, r |-> <<>>, s |-> <<>>]

\* slice[start..end].copy_from_slice(src) on a 1-based sequence: bytes
\* start+1..end of slice become src (the lengths agree at every use).
copy_from_slice(slice, start, end, src) ==
    [i \in 1..Len(slice) |->
        IF start < i /\ i <= end THEN src[i - start] ELSE slice[i]]

\* A faulty fill: each number copied to the start of its field.
asn1_fill_slice_left_aligned(expected_number_size, r_buffer, s_buffer) ==
    IF Len(r_buffer) > expected_number_size
       \/ Len(s_buffer) > 2 * expected_number_size
    THEN Panic
    ELSE LET slice0 == Zeros(2 * expected_number_size)
             slice1 == copy_from_slice(slice0, 0, Len(r_buffer), r_buffer)
             slice2 == copy_from_slice(slice1, expected_number_size,
                                       expected_number_size + Len(s_buffer),
                                       s_buffer)
         IN  Ok(slice2)

\* The closure given to Signature::new (ec.rs:541-554) on the zero-initialised
\* buffer; usize subtraction that would go below zero panics.
asn1_fill_slice(expected_number_size, r_buffer, s_buffer) ==
    IF Len(r_buffer) > expected_number_size
       \/ Len(s_buffer) > 2 * expected_number_size
    THEN Panic
    ELSE LET r_start == expected_number_size - Len(r_buffer)
             r_end   == expected_number_size
             s_start == 2 * expected_number_size - Len(s_buffer)
             s_end   == 2 * expected_number_size
             slice0  == Zeros(2 * expected_number_size)
             slice1  == copy_from_slice(slice0, r_start, r_end, r_buffer)
             slice2  == copy_from_slice(slice1, s_start, s_end, s_buffer)
         IN  Ok(slice2)

\* ecdsa_asn1_to_fixed (ec.rs:529-555). native_ok: LcPtr::new got a non-null
\* ECDSA_SIG for a well-formed input (the allocation succeeded).
ecdsa_asn1_to_fixed(alg_id, sig, native_ok) ==
    LET expected_number_size == ecdsa_fixed_number_byte_size(alg_id)
        ecdsa_sig == ECDSA_SIG_from_bytes(sig)
    IN  IF ~ecdsa_sig.ok \/ ~native_ok THEN Err("Unspecified")
        ELSE asn1_fill_slice(expected_number_size,
                             to_be_bytes(ecdsa_sig.r), to_be_bytes(ecdsa_sig.s))

\* ecdsa_sig_from_fixed (ec.rs:566-587), the value of the ECDSA_SIG it builds.
\* native_ok: none of its three native allocations and ECDSA_SIG_set0 failed.
ecdsa_sig_from_fixed_value(alg_id, signature, native_ok) ==
    LET num_size_bytes == ecdsa_fixed_number_byte_size(alg_id)
    IN  IF Len(signature) # 2 * num_size_bytes THEN SigErr("()")
        ELSE IF ~native_ok THEN SigErr("()")
        ELSE SigOk(BN_bin2bn(SubSeq(signature, 1, num_size_bytes)),
                   BN_bin2bn(SubSeq(signature, num_size_bytes + 1,
                                    Len(signature))))

\* The conversion at the head of verify_fixed_signature (ec.rs:221-230):
\* ecdsa_sig_from_fixed, then ECDSA_SIG_to_bytes; `?` turns () into Unspecified.
fixed_to_asn1(alg_id, signature, native_ok) ==
    LET sig == ecdsa_sig_from_fixed_value(alg_id, signature, native_ok)
    IN  IF sig.tag # "Ok" THEN Err("Unspecified")
        ELSE Ok(ECDSA_SIG_to_bytes(sig))

-----------------------------------------------------------------------------
(* The inputs of the conversions.                                          *)

\* A magnitude of n bytes: `first`, then n-1 times `fill`.
Mag(n, first, fill) == [i \in 1..n |-> IF i = 1 THEN first ELSE fill]

MagLens(L) == (0..MaxShort) \cup ((L - 1)..(L + MaxOver))

\* First byte 0x01 or 0x80 (top bit set: DER puts a 0x00 before it).
Mags(L) ==
    {Mag(n, first, fill) : n \in MagLens(L), first \in {1, 128}, fill \in {0, 255}}

PadLeft(L, m) == Zeros(L - Len(m)) \o m

FixedSigs(alg_id) ==
    LET L == ecdsa_fixed_number_byte_size(alg_id)
        fit == {m \in Mags(L) : Len(m) <= L}
    IN  {PadLeft(L, r) \o PadLeft(L, s) : r \in fit, s \in fit}

WrongLenSigs(alg_id) ==
    LET L == ecdsa_fixed_number_byte_size(alg_id)
    IN  {[i \in 1..n |-> 1] : n \in {0, L, 2 * L - 1, 2 * L + 1}}

\* Minimal DER signatures, among them ones with r or s longer than the field.
DerSigs(alg_id) ==
    LET L == ecdsa_fixed_number_byte_size(alg_id)
    IN  {ECDSA_SIG_to_bytes(SigOk(r, s)) : r \in Mags(L), s \in Mags(L)}

\* Not DER signatures: empty, truncated, wrong tag, trailing byte, negative r,
\* non-minimal r, non-minimal length, zero-length s.
MalformedDer ==
    { <<>>,
      <<48, 6, 2, 1, 1, 2, 1>>,
      <<49, 6, 2, 1, 1, 2, 1, 1>>,
      <<48, 6, 2, 1, 1, 2, 1, 1, 0>>,
      <<48, 6, 2, 1, 128, 2, 1, 1>>,
      <<48, 7, 2, 2, 0, 1, 2, 1, 1>>,
      <<48, 129, 6, 2, 1, 1, 2, 1, 1>>,
      <<48, 5, 2, 1, 1, 2, 0>> }

-----------------------------------------------------------------------------
(* Native objects and the wrappers that own them (crate::ptr).             *)

\* The locals of the construction functions; a native object is named after
\* the local that first holds it.
ObjNames ==
    {"ec_group", "public_ec_point", "private_bignum", "ec_point",
     "r_bn", "s_bn", "ecdsa_sig", "ec_key", "pkey", "evp_pkey", "pkey_ctx",
     "n_bn", "e_bn", "rsa"}

\* st:     "none" (never allocated), "live", "freed", "null" (a null pointer)
\* frees:  how many times the native release function ran on the object
\* parent: the native object that adopted it, or "none"
\* own:    "none", "caller" (a wrapper of the caller), "raw" (an unwrapped
\*         pointer), "LcPtr" / "DetachableLcPtr" (a live owning wrapper),
\*         "detached", "dropped", "returned"
NoObj == [st |-> "none", frees |-> 0, parent |-> "none", own |-> "none"]

EmptyHeap == [x \in ObjNames |-> NoObj]

Obj(own) == [st |-> "live", frees |-> 0, parent |-> "none", own |-> own]

\* The objects the caller passes by reference, owned by the caller's wrappers.
CallerHeap(inputs) ==
    [x \in ObjNames |-> IF x \in inputs THEN Obj("caller") ELSE NoObj]

Owning == {"LcPtr", "DetachableLcPtr"}

\* acquire_owning(raw): fails on a null pointer, else wraps it as sole owner.
LcPtr_new(raw_st) == raw_st = "live"

\* x and every object adopted by x, directly or through an adopted object.
Subtree(h, x) ==
    LET c1 == {y \in ObjNames : h[y].parent = x}
        c2 == {y \in ObjNames : h[y].parent \in c1}
        c3 == {y \in ObjNames : h[y].parent \in c2}
    IN  {x} \cup c1 \cup c2 \cup c3

\* The native release function on x: x and what it adopted are released.
FreeObj(h, x) ==
    [y \in ObjNames |->
        IF y \in Subtree(h, x)
        THEN [h[y] EXCEPT !.frees = @ + 1, !.st = "freed"]
        ELSE h[y]]

\* Drop of the wrapper held by local x: an owning wrapper releases its
\* object once, a detached one releases nothing.
DropWrapper(h, x) ==
    IF h[x].own \in Owning
    THEN [FreeObj(h, x) EXCEPT ![x].own = "dropped"]
    ELSE h

\* The locals in scope are dropped in reverse order of declaration.
RECURSIVE DropScope(_, _)
DropScope(h, scope) ==
    IF scope = <<>> THEN h
    ELSE DropScope(DropWrapper(h, scope[Len(scope)]),
                   SubSeq(scope, 1, Len(scope) - 1))

Event(ev, what, res) == [ev |-> ev, what |-> what, res |-> res]

-----------------------------------------------------------------------------
(* Key validation (ec.rs:280-305) and the service-indicator check.         *)

\* The curve identifiers of the native engine (ec.rs:108-115; P-224 and an
\* identifier the engine does not know, for ec_group_from_nid).
KnownNids ==
    {"NID_secp224r1", "NID_X9_62_prime256v1", "NID_secp384r1",
     "NID_secp521r1", "NID_secp256k1"}
Nids == KnownNids \cup {"NID_undef"}

\* AlgorithmID::nid (ec.rs:106-116).
nid(alg_id) ==
    CASE alg_id = "ECDSA_P256" -> "NID_X9_62_prime256v1"
      [] alg_id = "ECDSA_P384" -> "NID_secp384r1"
      [] alg_id = "ECDSA_P521" -> "NID_secp521r1"
      [] alg_id = "ECDSA_P256K1" -> "NID_secp256k1"

\* indicator_check!(call): the indicator is read before and after the call;
\* the macro's value is the call's return code (the call sites compare it
\* with 1), and the verdict is what the three values combine to.
indicator_check(rc, before, after) ==
    [value   |-> rc,
     verdict |-> IF rc # 1 THEN "Unexpected"
                 ELSE IF after # before THEN "ApprovedMode"
                 ELSE "NonApprovedMode"]

\* An EVP_PKEY as validate_evp_key sees it:
\*   ec_key_null  EVP_PKEY_get0_EC_KEY gives null (not an EC key)
\*   group_null   EC_KEY_get0_group gives null
\*   key_nid      the curve of the key's group
\*   check_rc     what EC_KEY_check_key / EC_KEY_check_fips returns on it
\*   approved     whether the engine counts that check as an approved service
EvpPkey(key_nid, check_rc, approved) ==
    [ec_key_null |-> FALSE, group_null |-> FALSE, key_nid |-> key_nid,
     check_rc |-> check_rc, approved |-> approved]

Validated(res, calls, verdict) ==
    [result |-> res, calls |-> calls, verdict |-> verdict]

\* A faulty validation: the consistency check runs before the curve test.
validate_evp_key_check_first(evp_pkey, expected_curve_nid, fips) ==
    IF evp_pkey.ec_key_null
    THEN Validated("UnexpectedError", <<"EVP_PKEY_get0_EC_KEY">>, "none")
    ELSE IF evp_pkey.group_null
    THEN Validated("UnexpectedError",
                   <<"EVP_PKEY_get0_EC_KEY", "EC_KEY_get0_group">>, "none")
    ELSE IF 1 # evp_pkey.check_rc
    THEN Validated("InconsistentComponents",
                   <<"EVP_PKEY_get0_EC_KEY", "EC_KEY_get0_group",
                     "EC_KEY_check_key">>, "none")
    ELSE IF evp_pkey.key_nid # expected_curve_nid
    THEN Validated("WrongAlgorithm",
                   <<"EVP_PKEY_get0_EC_KEY", "EC_KEY_get0_group",
                     "EC_KEY_check_key", "EC_GROUP_get_curve_name">>, "none")
    ELSE Validated("Ok",
                   <<"EVP_PKEY_get0_EC_KEY", "EC_KEY_get0_group",
                     "EC_KEY_check_key", "EC_GROUP_get_curve_name">>, "none")

\* A faulty validation: in fips builds the check is made without the
\* service-indicator protocol.
validate_evp_key_no_indicator(evp_pkey, expected_curve_nid, fips) ==
    LET pre == <<"EVP_PKEY_get0_EC_KEY", "EC_KEY_get0_group",
                 "EC_GROUP_get_curve_name">>
    IN  IF evp_pkey.ec_key_null
        THEN Validated("UnexpectedError", <<"EVP_PKEY_get0_EC_KEY">>, "none")
        ELSE IF evp_pkey.group_null
        THEN Validated("UnexpectedError",
                       <<"EVP_PKEY_get0_EC_KEY", "EC_KEY_get0_group">>, "none")
        ELSE IF evp_pkey.key_nid # expected_curve_nid
        THEN Validated("WrongAlgorithm", pre, "none")
        ELSE IF 1 # evp_pkey.check_rc
        THEN Validated("InconsistentComponents",
                       Append(pre, "EC_KEY_check_key"), "none")
        ELSE Validated("Ok", Append(pre, "EC_KEY_check_key"), "none")

\* validate_evp_key (ec.rs:280-305). `?` on a null ConstPointer gives the
\* KeyRejected made from (), named UnexpectedError here.
validate_evp_key(evp_pkey, expected_curve_nid, fips) ==
    LET pre == <<"EVP_PKEY_get0_EC_KEY", "EC_KEY_get0_group",
                 "EC_GROUP_get_curve_name">>
    IN  IF evp_pkey.ec_key_null
        THEN Validated("UnexpectedError", <<"EVP_PKEY_get0_EC_KEY">>, "none")
        ELSE IF evp_pkey.group_null
        THEN Validated("UnexpectedError",
                       <<"EVP_PKEY_get0_EC_KEY", "EC_KEY_get0_group">>, "none")
        ELSE IF evp_pkey.key_nid # expected_curve_nid
        THEN Validated("WrongAlgorithm", pre, "none")
        ELSE IF ~fips
        THEN IF 1 # evp_pkey.check_rc
             THEN Validated("InconsistentComponents",
                            Append(pre, "EC_KEY_check_key"), "none")
             ELSE Validated("Ok", Append(pre, "EC_KEY_check_key"), "none")
        ELSE LET before == 0
                 after  == IF evp_pkey.approved THEN before + 1 ELSE before
                 ic     == indicator_check(evp_pkey.check_rc, before, after)
             IN  IF 1 # ic.value
                 THEN Validated("InconsistentComponents",
                                Append(pre, "EC_KEY_check_fips"), ic.verdict)
                 ELSE Validated("Ok", Append(pre, "EC_KEY_check_fips"),
                                ic.verdict)

-----------------------------------------------------------------------------
(* The statements of a construction function and their execution.          *)

Stmt0 ==
    [op |-> "", line |-> 0, var |-> "none", wrap |-> "none", native |-> "",
     uses |-> <<>>, adopts |-> <<>>, bad |-> FALSE, err |-> "",
     key_nid |-> "none", expected |-> "none"]

\* if cond { return Err(err) }
Check(line, cond, err) ==
    [Stmt0 EXCEPT !.op = "check", !.line = line, !.bad = cond, !.err = err]

\* let var = wrap::new(native(uses))?   (bad: the engine gives null for these
\* arguments, whatever the state of the allocator)
New(line, var, wrap, native, uses, bad, err) ==
    [Stmt0 EXCEPT !.op = "new", !.line = line, !.var = var, !.wrap = wrap,
                  !.native = native, !.uses = uses, !.bad = bad, !.err = err]

\* if 1 != native(uses) { return Err(err) }
Call(line, native, uses, bad, err) ==
    [Stmt0 EXCEPT !.op = "call", !.line = line, !.native = native,
                  !.uses = uses, !.bad = bad, !.err = err]

\* if 1 != native(*var, *adopts..) { return Err(err) }, the engine making var
\* the owner of the adopted objects when it returns 1
Transfer(line, native, var, adopts, err) ==
    [Stmt0 EXCEPT !.op = "transfer", !.line = line, !.native = native,
                  !.var = var, !.adopts = adopts, !.err = err]

\* var.detach()
Detach(line, var) == [Stmt0 EXCEPT !.op = "detach", !.line = line, !.var = var]

\* if 1 != native(uses, &mut var) { return Err(err) }, var a raw pointer
CallOut(line, native, uses, var, bad, err) ==
    [Stmt0 EXCEPT !.op = "callout", !.line = line, !.native = native,
                  !.uses = uses, !.var = var, !.bad = bad, !.err = err]

\* let var = wrap::new(var)?   on the raw pointer var
Wrap(line, var, wrap, err) ==
    [Stmt0 EXCEPT !.op = "wrap", !.line = line, !.var = var, !.wrap = wrap,
                  !.err = err]

\* validate_evp_key(&var.as_const(), expected)?   err "KeyRejected": the
\* reason is passed on; err "Unspecified": `?` converts it
Validate(line, var, key_nid, expected, err) ==
    [Stmt0 EXCEPT !.op = "validate", !.line = line, !.var = var,
                  !.key_nid = key_nid, !.expected = expected, !.err = err]

\* Ok(var)
ReturnOk(line, var) ==
    [Stmt0 EXCEPT !.op = "return", !.line = line, !.var = var]

HasOp(prog, op) == \E k \in 1..Len(prog) : prog[k].op = op

\* What the engine does in one run: `at` is the statement whose native call
\* fails (0: none), null_out says that a call with an out-parameter returns 1
\* and leaves null there, check_rc and approved are the outcome of the
\* consistency check of the key.
Oracles(prog) ==
    [at : {0} \cup {k \in 1..Len(prog) :
                       prog[k].op \in {"new", "call", "transfer", "callout"}},
     null_out : IF HasOp(prog, "callout") THEN BOOLEAN ELSE {FALSE},
     check_rc : IF HasOp(prog, "validate") THEN {0, 1} ELSE {1},
     approved : IF HasOp(prog, "validate") THEN BOOLEAN ELSE {FALSE}]

ExecStart(h) ==
    [heap |-> h, trace |-> <<>>, scope |-> <<>>, done |-> FALSE,
     verdict |-> "none",
     result |-> [tag |-> "none", err |-> "", handle |-> "none"]]

DerefEvents(uses) == [k \in 1..Len(uses) |-> Event("deref", uses[k], "")]

ReturnErr(es, e) ==
    [es EXCEPT !.heap = DropScope(es.heap, es.scope),
               !.trace = Append(@, Event("return", "Err", e)),
               !.done = TRUE,
               !.result = [tag |-> "Err", err |-> e, handle |-> "none"]]

ExecStmt(s, i, es, o, fips) ==
    LET failed == s.bad \/ o.at = i
        called == [es EXCEPT !.trace =
                      Append(@ \o DerefEvents(s.uses),
                             Event("call", s.native,
                                   IF failed THEN "fail" ELSE "ok"))]
    IN  CASE s.op = "check" ->
               IF s.bad THEN ReturnErr(es, s.err) ELSE es
          [] s.op = "new" ->
               IF ~LcPtr_new(IF failed THEN "null" ELSE "live")
               THEN ReturnErr(called, s.err)
               ELSE [called EXCEPT !.heap[s.var] = Obj(s.wrap),
                                   !.trace = Append(@, Event("alloc", s.var, "")),
                                   !.scope = Append(@, s.var)]
          [] s.op = "call" ->
               IF failed THEN ReturnErr(called, s.err) ELSE called
          [] s.op = "transfer" ->
               LET tr == [es EXCEPT !.trace =
                             Append(@ \o DerefEvents(<<s.var>> \o s.adopts),
                                    Event("call", s.native,
                                          IF failed THEN "fail" ELSE "ok"))]
               IN  IF failed THEN ReturnErr(tr, s.err)
                   ELSE [tr EXCEPT !.heap =
                            [x \in ObjNames |->
                                IF \E k \in 1..Len(s.adopts) : s.adopts[k] = x
                                THEN [es.heap[x] EXCEPT !.parent = s.var]
                                ELSE es.heap[x]]]
          [] s.op = "detach" ->
               [es EXCEPT !.heap[s.var].own = "detached",
                          !.trace = Append(@, Event("detach", s.var, ""))]
          [] s.op = "callout" ->
               IF failed THEN ReturnErr(called, s.err)
               ELSE IF o.null_out
               THEN [called EXCEPT !.heap[s.var] = [NoObj EXCEPT !.st = "null"]]
               ELSE [called EXCEPT !.heap[s.var] = Obj("raw"),
                                   !.trace = Append(@, Event("alloc", s.var, ""))]
          [] s.op = "wrap" ->
               IF ~LcPtr_new(es.heap[s.var].st) THEN ReturnErr(es, s.err)
               ELSE [es EXCEPT !.heap[s.var].own = s.wrap,
                               !.scope = Append(@, s.var)]
          [] s.op = "validate" ->
               LET v == validate_evp_key(
                            EvpPkey(s.key_nid, o.check_rc, o.approved),
                            s.expected, fips)
                   ev == [es EXCEPT !.trace =
                             Append(@ \o DerefEvents(<<s.var>>),
                                    Event("validate", s.var, v.result)),
                                   !.verdict = v.verdict]
               IN  IF v.result = "Ok" THEN ev
                   ELSE ReturnErr(ev, IF s.err = "KeyRejected" THEN v.result
                                      ELSE s.err)
          [] s.op = "return" ->
               LET kept == [es.heap EXCEPT ![s.var].own = "returned"]
               IN  [es EXCEPT !.heap = DropScope(kept, es.scope),
                              !.trace = Append(@, Event("return", "Ok", s.var)),
                              !.done = TRUE,
                              !.result = [tag |-> "Ok", err |-> "",
                                          handle |-> s.var]]

\* The statements run in order until one returns; `next` is the state after
\* statement i.
RECURSIVE Run(_, _, _, _, _)
Run(prog, i, es, o, fips) ==
    IF es.done \/ i > Len(prog) THEN es
    ELSE CHOOSE end \in {Run(prog, i + 1, next, o, fips) :
                            next \in {ExecStmt(prog[i], i, es, o, fips)}} : TRUE

-----------------------------------------------------------------------------
(* The construction functions, statement by statement.                     *)

\* A faulty ecdsa_sig_from_fixed: the length is tested after the numbers
\* were allocated.
ecdsa_sig_from_fixed_late_check(alg_id, signature) ==
    LET num_size_bytes == ecdsa_fixed_number_byte_size(alg_id)
    IN  << New(575, "r_bn", "DetachableLcPtr", "BN_bin2bn", <<>>, FALSE, "()"),
           New(576, "s_bn", "DetachableLcPtr", "BN_bin2bn", <<>>, FALSE, "()"),
           Check(572, Len(signature) # 2 * num_size_bytes, "()"),
           New(578, "ecdsa_sig", "LcPtr", "ECDSA_SIG_new", <<>>, FALSE, "()"),
           Transfer(580, "ECDSA_SIG_set0", "ecdsa_sig", <<"r_bn", "s_bn">>, "()"),
           Detach(583, "r_bn"),
           Detach(584, "s_bn"),
           ReturnOk(586, "ecdsa_sig") >>

\* Mutant of ecdsa_sig_from_fixed: r_bn and s_bn are detached before
\* ECDSA_SIG_set0 is called.
ecdsa_sig_from_fixed_detach_first(alg_id, signature) ==
    LET num_size_bytes == ecdsa_fixed_number_byte_size(alg_id)
    IN  << Check(572, Len(signature) # 2 * num_size_bytes, "()"),
           New(575, "r_bn", "DetachableLcPtr", "BN_bin2bn", <<>>, FALSE, "()"),
           New(576, "s_bn", "DetachableLcPtr", "BN_bin2bn", <<>>, FALSE, "()"),
           New(578, "ecdsa_sig", "LcPtr", "ECDSA_SIG_new", <<>>, FALSE, "()"),
           Detach(583, "r_bn"),
           Detach(584, "s_bn"),
           Transfer(580, "ECDSA_SIG_set0", "ecdsa_sig", <<"r_bn", "s_bn">>, "()"),
           ReturnOk(586, "ecdsa_sig") >>

\* ecdsa_sig_from_fixed (ec.rs:566-587).
ecdsa_sig_from_fixed(alg_id, signature) ==
    LET num_size_bytes == ecdsa_fixed_number_byte_size(alg_id)
    IN  << Check(572, Len(signature) # 2 * num_size_bytes, "()"),
           New(575, "r_bn", "DetachableLcPtr", "BN_bin2bn", <<>>, FALSE, "()"),
           New(576, "s_bn", "DetachableLcPtr", "BN_bin2bn", <<>>, FALSE, "()"),
           New(578, "ecdsa_sig", "LcPtr", "ECDSA_SIG_new", <<>>, FALSE, "()"),
           Transfer(580, "ECDSA_SIG_set0", "ecdsa_sig", <<"r_bn", "s_bn">>, "()"),
           Detach(583, "r_bn"),
           Detach(584, "s_bn"),
           ReturnOk(586, "ecdsa_sig") >>

\* A faulty evp_pkey_from_public_point: ec_key is not detached after
\* EVP_PKEY_assign_EC_KEY.
evp_pkey_from_public_point_no_detach(group_nid) ==
    << New(366, "ec_key", "DetachableLcPtr", "EC_KEY_new", <<>>, FALSE,
           "Unspecified"),
       Call(367, "EC_KEY_set_group", <<"ec_key", "ec_group">>, FALSE,
            "Unspecified"),
       Call(370, "EC_KEY_set_public_key", <<"ec_key", "public_ec_point">>,
            FALSE, "Unspecified"),
       New(374, "pkey", "LcPtr", "EVP_PKEY_new", <<>>, FALSE, "Unspecified"),
       Transfer(376, "EVP_PKEY_assign_EC_KEY", "pkey", <<"ec_key">>,
                "Unspecified"),
       Validate(382, "pkey", group_nid, group_nid, "Unspecified"),
       ReturnOk(384, "pkey") >>

\* A faulty evp_pkey_from_public_point: the key is returned unvalidated.
evp_pkey_from_public_point_no_validate(group_nid) ==
    << New(366, "ec_key", "DetachableLcPtr", "EC_KEY_new", <<>>, FALSE,
           "Unspecified"),
       Call(367, "EC_KEY_set_group", <<"ec_key", "ec_group">>, FALSE,
            "Unspecified"),
       Call(370, "EC_KEY_set_public_key", <<"ec_key", "public_ec_point">>,
            FALSE, "Unspecified"),
       New(374, "pkey", "LcPtr", "EVP_PKEY_new", <<>>, FALSE, "Unspecified"),
       Transfer(376, "EVP_PKEY_assign_EC_KEY", "pkey", <<"ec_key">>,
                "Unspecified"),
       Detach(380, "ec_key"),
       ReturnOk(384, "pkey") >>

\* evp_pkey_from_public_point (ec.rs:360-385); group_nid is the curve of the
\* caller's ec_group, which line 365 reads and line 382 validates against.
evp_pkey_from_public_point(group_nid) ==
    << New(366, "ec_key", "DetachableLcPtr", "EC_KEY_new", <<>>, FALSE,
           "Unspecified"),
       Call(367, "EC_KEY_set_group", <<"ec_key", "ec_group">>, FALSE,
            "Unspecified"),
       Call(370, "EC_KEY_set_public_key", <<"ec_key", "public_ec_point">>,
            FALSE, "Unspecified"),
       New(374, "pkey", "LcPtr", "EVP_PKEY_new", <<>>, FALSE, "Unspecified"),
       Transfer(376, "EVP_PKEY_assign_EC_KEY", "pkey", <<"ec_key">>,
                "Unspecified"),
       Detach(380, "ec_key"),
       Validate(382, "pkey", group_nid, group_nid, "Unspecified"),
       ReturnOk(384, "pkey") >>

\* A faulty evp_key_generate: the generated pointer is returned unwrapped.
evp_key_generate_unchecked(curve_nid) ==
    << New(430, "pkey_ctx", "LcPtr", "EVP_PKEY_CTX_new_id", <<>>, FALSE,
           "Unspecified"),
       Call(432, "EVP_PKEY_keygen_init", <<"pkey_ctx">>, FALSE, "Unspecified"),
       Call(436, "EVP_PKEY_CTX_set_ec_paramgen_curve_nid", <<"pkey_ctx">>,
            curve_nid \notin KnownNids, "Unspecified"),
       CallOut(442, "EVP_PKEY_keygen", <<"pkey_ctx">>, "pkey", FALSE,
               "Unspecified"),
       ReturnOk(448, "pkey") >>

\* evp_key_generate (ec.rs:428-449).
evp_key_generate(curve_nid) ==
    << New(430, "pkey_ctx", "LcPtr", "EVP_PKEY_CTX_new_id", <<>>, FALSE,
           "Unspecified"),
       Call(432, "EVP_PKEY_keygen_init", <<"pkey_ctx">>, FALSE, "Unspecified"),
       Call(436, "EVP_PKEY_CTX_set_ec_paramgen_curve_nid", <<"pkey_ctx">>,
            curve_nid \notin KnownNids, "Unspecified"),
       CallOut(442, "EVP_PKEY_keygen", <<"pkey_ctx">>, "pkey", FALSE,
               "Unspecified"),
       Wrap(446, "pkey", "LcPtr", "Unspecified"),
       ReturnOk(448, "pkey") >>

\* A faulty evp_key_from_public_private: the key is returned unvalidated.
evp_key_from_public_private_no_validate(group_nid) ==
    << New(457, "ec_key", "DetachableLcPtr", "EC_KEY_new", <<>>, FALSE,
           "UnexpectedError"),
       Call(458, "EC_KEY_set_group", <<"ec_key", "ec_group">>, FALSE,
            "UnexpectedError"),
       Call(461, "EC_KEY_set_public_key", <<"ec_key", "public_ec_point">>,
            FALSE, "UnexpectedError"),
       Call(464, "EC_KEY_set_private_key", <<"ec_key", "private_bignum">>,
            FALSE, "UnexpectedError"),
       New(468, "evp_pkey", "LcPtr", "EVP_PKEY_new", <<>>, FALSE,
           "UnexpectedError"),
       Transfer(470, "EVP_PKEY_assign_EC_KEY", "evp_pkey", <<"ec_key">>,
                "UnexpectedError"),
       Detach(473, "ec_key"),
       ReturnOk(478, "evp_pkey") >>

\* evp_key_from_public_private (ec.rs:451-479); every early return is
\* KeyRejected::unexpected_error(), the `?` of line 476 passes the reason on.
evp_key_from_public_private(group_nid) ==
    << New(457, "ec_key", "DetachableLcPtr", "EC_KEY_new", <<>>, FALSE,
           "UnexpectedError"),
       Call(458, "EC_KEY_set_group", <<"ec_key", "ec_group">>, FALSE,
            "UnexpectedError"),
       Call(461, "EC_KEY_set_public_key", <<"ec_key", "public_ec_point">>,
            FALSE, "UnexpectedError"),
       Call(464, "EC_KEY_set_private_key", <<"ec_key", "private_bignum">>,
            FALSE, "UnexpectedError"),
       New(468, "evp_pkey", "LcPtr", "EVP_PKEY_new", <<>>, FALSE,
           "UnexpectedError"),
       Transfer(470, "EVP_PKEY_assign_EC_KEY", "evp_pkey", <<"ec_key">>,
                "UnexpectedError"),
       Detach(473, "ec_key"),
       Validate(476, "evp_pkey", group_nid, group_nid, "KeyRejected"),
       ReturnOk(478, "evp_pkey") >>

\* ec_group_from_nid (ec.rs:481-484): the engine gives null for a curve
\* identifier it does not know.
ec_group_from_nid(curve_nid) ==
    << New(483, "ec_group", "LcPtr", "EC_GROUP_new_by_curve_name", <<>>,
           curve_nid \notin KnownNids, "()"),
       ReturnOk(483, "ec_group") >>

\* Mutant of build_rsa: the exponent is not checked before it is converted.
build_rsa_e_unchecked(n_bytes, e_bytes) ==
    << Check(381, n_bytes = <<>> \/ n_bytes[1] = 0, "()"),
       New(384, "n_bn", "DetachableLcPtr", "BN_bin2bn", <<>>, FALSE, "()"),
       New(390, "e_bn", "DetachableLcPtr", "BN_bin2bn", <<>>, FALSE, "()"),
       New(392, "rsa", "DetachableLcPtr", "RSA_new", <<>>, FALSE, "()"),
       Transfer(393, "RSA_set0_key", "rsa", <<"n_bn", "e_bn">>, "()"),
       Detach(396, "n_bn"),
       Detach(397, "e_bn"),
       New(399, "pkey", "LcPtr", "EVP_PKEY_new", <<>>, FALSE, "()"),
       Transfer(400, "EVP_PKEY_assign_RSA", "pkey", <<"rsa">>, "()"),
       Detach(403, "rsa"),
       ReturnOk(405, "pkey") >>

\* PublicKeyComponents::build_rsa (rsa/key.rs:378-406).
build_rsa(n_bytes, e_bytes) ==
    << Check(381, n_bytes = <<>> \/ n_bytes[1] = 0, "()"),
       New(384, "n_bn", "DetachableLcPtr", "BN_bin2bn", <<>>, FALSE, "()"),
       Check(387, e_bytes = <<>> \/ e_bytes[1] = 0, "()"),
       New(390, "e_bn", "DetachableLcPtr", "BN_bin2bn", <<>>, FALSE, "()"),
       New(392, "rsa", "DetachableLcPtr", "RSA_new", <<>>, FALSE, "()"),
       Transfer(393, "RSA_set0_key", "rsa", <<"n_bn", "e_bn">>, "()"),
       Detach(396, "n_bn"),
       Detach(397, "e_bn"),
       New(399, "pkey", "LcPtr", "EVP_PKEY_new", <<>>, FALSE, "()"),
       Transfer(400, "EVP_PKEY_assign_RSA", "pkey", <<"rsa">>, "()"),
       Detach(403, "rsa"),
       ReturnOk(405, "pkey") >>

-----------------------------------------------------------------------------
(* Spec: one construction function is called; the caller then drops what   *)
(* it got back and the objects it had passed in.                           *)

\* The arguments of a call (those the function does not take keep their
\* default) and o, what the engine did.
Input0 ==
    [alg_id |-> "none", signature |-> <<>>, curve_nid |-> "none",
     expected |-> "none", n |-> <<>>, e |-> <<>>,
     key |-> EvpPkey("none", 1, FALSE),
     o |-> [at |-> 0, null_out |-> FALSE, check_rc |-> 1, approved |-> FALSE]]

\* Fixed signatures passed to ecdsa_sig_from_fixed: of the right length
\* (r with leading zeros, s with its top bit set) and of four wrong lengths.
CallSigs(alg_id) ==
    LET L == ecdsa_fixed_number_byte_size(alg_id)
    IN  {PadLeft(L, Mag(n, 1, 255)) \o PadLeft(L, Mag(L, 128, 0)) :
            n \in 0..MaxShort}
        \cup WrongLenSigs(alg_id)

\* Big-endian components passed to build_rsa: empty, with a leading zero
\* byte, and well-formed.
RsaComponents == {<<>>, <<0, 1>>, <<1, 0, 1>>, <<195, 7>>}

\* The variables of a specification that does not use them.
OwnIdle ==
    /\ phase = "idle"
    /\ fn = "none"
    /\ input = Input0
    /\ heap = EmptyHeap
    /\ result = [tag |-> "none", err |-> "", handle |-> "none",
                 verdict |-> "none", sig |-> SigErr("")]
    /\ trace = <<>>

VerIdle ==
    /\ vIn = <<>>
    /\ vStage = "idle"
    /\ vOut = <<>>
    /\ vCalls = <<>>

MarIdle ==
    /\ mFn = "none"
    /\ mIn = <<>>
    /\ mOut = <<>>
    /\ mBack = <<>>

NonceIdle ==
    /\ pns = <<>>
    /\ uns1 = <<>>
    /\ uns2 = <<>>
    /\ nsKey = <<>>
    /\ nsLog = <<>>

IndIdle ==
    /\ indicator = 0
    /\ thr = <<>>

KpIdle ==
    /\ kps = <<>>
    /\ kpThr = <<>>

LaterIdle == IndIdle /\ KpIdle

ExtIdle == MarIdle /\ NonceIdle /\ LaterIdle

SigIdle ==
    /\ sigAlg = "none"
    /\ sigFmt = "none"
    /\ sigIn = <<>>
    /\ sigStage = "idle"
    /\ sigNative = TRUE
    /\ sigOut = Ok(<<>>)
    /\ sigBack = Ok(<<>>)

Init ==
    /\ cfg_fips \in BOOLEAN
    /\ phase = "idle"
    /\ fn = "none"
    /\ input = Input0
    /\ heap = EmptyHeap
    /\ result = [tag |-> "none", err |-> "", handle |-> "none",
                 verdict |-> "none", sig |-> SigErr("")]
    /\ trace = <<>>
    /\ SigIdle
    /\ VerIdle
    /\ ExtIdle

\* The function with body `body` runs to its return.
Returns(body, in, h0, sig) ==
    \E prog \in {body} : \E o \in Oracles(prog) :
        \E es \in {Run(prog, 1, ExecStart(h0), o, cfg_fips)} :
            /\ input' = [in EXCEPT !.o = o]
            /\ heap' = es.heap
            /\ trace' = es.trace
            /\ result' = [tag |-> es.result.tag, err |-> es.result.err,
                          handle |-> es.result.handle,
                          verdict |-> es.verdict,
                          sig |-> IF es.result.tag = "Ok" THEN sig
                                  ELSE SigErr(es.result.err)]

Call_ecdsa_sig_from_fixed ==
    /\ phase = "idle"
    /\ \E alg_id \in AlgorithmID : \E signature \in CallSigs(alg_id) :
           Returns(ecdsa_sig_from_fixed(alg_id, signature),
                   [Input0 EXCEPT !.alg_id = alg_id, !.signature = signature],
                   EmptyHeap,
                   ecdsa_sig_from_fixed_value(alg_id, signature, TRUE))
    /\ fn' = "ecdsa_sig_from_fixed"
    /\ phase' = "returned"
    /\ UNCHANGED <<cfg_fips, sigVars, verVars, extVars>>

Call_evp_pkey_from_public_point ==
    /\ phase = "idle"
    /\ \E curve_nid \in KnownNids :
           Returns(evp_pkey_from_public_point(curve_nid),
                   [Input0 EXCEPT !.curve_nid = curve_nid],
                   CallerHeap({"ec_group", "public_ec_point"}),
                   SigErr(""))
    /\ fn' = "evp_pkey_from_public_point"
    /\ phase' = "returned"
    /\ UNCHANGED <<cfg_fips, sigVars, verVars, extVars>>

Call_evp_key_from_public_private ==
    /\ phase = "idle"
    /\ \E curve_nid \in KnownNids :
           Returns(evp_key_from_public_private(curve_nid),
                   [Input0 EXCEPT !.curve_nid = curve_nid],
                   CallerHeap({"ec_group", "public_ec_point", "private_bignum"}),
                   SigErr(""))
    /\ fn' = "evp_key_from_public_private"
    /\ phase' = "returned"
    /\ UNCHANGED <<cfg_fips, sigVars, verVars, extVars>>

Call_evp_key_generate ==
    /\ phase = "idle"
    /\ \E curve_nid \in Nids :
           Returns(evp_key_generate(curve_nid),
                   [Input0 EXCEPT !.curve_nid = curve_nid],
                   EmptyHeap,
                   SigErr(""))
    /\ fn' = "evp_key_generate"
    /\ phase' = "returned"
    /\ UNCHANGED <<cfg_fips, sigVars, verVars, extVars>>

Call_ec_group_from_nid ==
    /\ phase = "idle"
    /\ \E curve_nid \in Nids :
           Returns(ec_group_from_nid(curve_nid),
                   [Input0 EXCEPT !.curve_nid = curve_nid],
                   EmptyHeap,
                   SigErr(""))
    /\ fn' = "ec_group_from_nid"
    /\ phase' = "returned"
    /\ UNCHANGED <<cfg_fips, sigVars, verVars, extVars>>

Call_build_rsa ==
    /\ phase = "idle"
    /\ \E n \in RsaComponents : \E e \in RsaComponents :
           Returns(build_rsa(n, e),
                   [Input0 EXCEPT !.n = n, !.e = e],
                   EmptyHeap,
                   SigErr(""))
    /\ fn' = "build_rsa"
    /\ phase' = "returned"
    /\ UNCHANGED <<cfg_fips, sigVars, verVars, extVars>>

\* validate_evp_key on a key of the caller, against any expected curve.
Call_validate_evp_key ==
    /\ phase = "idle"
    /\ \E key_nid \in KnownNids, expected \in {nid(a) : a \in AlgorithmID},
          check_rc \in {0, 1}, approved \in BOOLEAN, missing \in {"no", "ec_key", "group"} :
          LET key == [EvpPkey(key_nid, check_rc, approved) EXCEPT
                         !.ec_key_null = (missing = "ec_key"),
                         !.group_null = (missing = "group")]
              v   == validate_evp_key(key, expected, cfg_fips)
          IN  /\ input' = [Input0 EXCEPT !.key = key, !.expected = expected,
                                         !.curve_nid = key_nid]
              /\ trace' = [k \in 1..Len(v.calls) |-> Event("call", v.calls[k], "")]
              /\ result' = [tag |-> IF v.result = "Ok" THEN "Ok" ELSE "Err",
                            err |-> IF v.result = "Ok" THEN "" ELSE v.result,
                            handle |-> "none", verdict |-> v.verdict,
                            sig |-> SigErr("")]
    /\ heap' = CallerHeap({"evp_pkey"})
    /\ fn' = "validate_evp_key"
    /\ phase' = "returned"
    /\ UNCHANGED <<cfg_fips, sigVars, verVars, extVars>>

\* The caller lets go of the handle it was given and of its own objects.
CallerDrop ==
    /\ phase = "returned"
    /\ LET h1 == IF result.tag = "Ok" /\ result.handle # "none"
                    /\ heap[result.handle].st # "null"
                 THEN [FreeObj(heap, result.handle)
                          EXCEPT ![result.handle].own = "dropped"]
                 ELSE heap
       IN  heap' = [x \in ObjNames |->
                       IF h1[x].own = "caller"
                       THEN [h1[x] EXCEPT !.frees = @ + 1, !.st = "freed",
                                          !.own = "dropped"]
                       ELSE h1[x]]
    /\ phase' = "dropped"
    /\ UNCHANGED <<cfg_fips, fn, input, result, trace, sigVars, verVars, extVars>>

Next ==
    \/ Call_ecdsa_sig_from_fixed
    \/ Call_evp_pkey_from_public_point
    \/ Call_evp_key_from_public_private
    \/ Call_evp_key_generate
    \/ Call_ec_group_from_nid
    \/ Call_build_rsa
    \/ Call_validate_evp_key
    \/ CallerDrop

Spec == Init /\ [][Next]_vars

\* What the spec gives as the fixed widths (section 6).
SpecFixedLen(alg_id) ==
    IF alg_id = "ECDSA_P384" THEN 48 ELSE IF alg_id = "ECDSA_P521" THEN 66 ELSE 32

-----------------------------------------------------------------------------
(* Properties of the construction functions, under Spec.                   *)

\* The objects the function allocated in this run.
AllocatedBy == {x \in ObjNames : \E k \in 1..Len(trace) :
                   trace[k].ev = "alloc" /\ trace[k].what = x}

\* validate_evp_key succeeded on var before var was returned.
ValidatedThenReturned(var) ==
    \E k \in 1..Len(trace) : \E j \in (k + 1)..Len(trace) :
        /\ trace[k] = Event("validate", var, "Ok")
        /\ trace[j] = Event("return", "Ok", var)

ValidationFailed ==
    \E k \in 1..Len(trace) : trace[k].ev = "validate" /\ trace[k].res # "Ok"

NativeCalled(name) ==
    \E k \in 1..Len(trace) : trace[k].ev = "call" /\ trace[k].what = name

\* C1: in ecdsa_sig_from_fixed, evp_pkey_from_public_point,
\* evp_key_from_public_private and build_rsa, on every path, no native object
\* is released twice; when the function returns an error every object it
\* allocated has been released once; when it returns a handle nothing has been
\* released and every object it allocated belongs to the returned object, and
\* is released once when the caller drops the handle; the caller's own
\* objects are not released by the function.
C1_ReleasedExactlyOnce ==
    fn \in {"ecdsa_sig_from_fixed", "evp_pkey_from_public_point",
            "evp_key_from_public_private", "build_rsa"} =>
        /\ \A x \in ObjNames : heap[x].frees <= 1
        /\ (phase = "returned" /\ result.tag = "Err") =>
              \A x \in AllocatedBy : heap[x].frees = 1
        /\ (phase = "returned" /\ result.tag = "Ok") =>
              \A x \in AllocatedBy :
                  heap[x].frees = 0 /\ x \in Subtree(heap, result.handle)
        /\ phase = "returned" =>
              \A x \in ObjNames : heap[x].own = "caller" => heap[x].frees = 0
        /\ phase = "dropped" =>
              \A x \in ObjNames : heap[x].st # "none" => heap[x].frees = 1

\* build_rsa fails at EVP_PKEY_new after n and e were handed to the RSA
\* object: the three objects are released, once each.
C1_Witness ==
    /\ fn = "build_rsa" /\ phase = "returned" /\ result.tag = "Err"
    /\ heap["n_bn"].own = "detached" /\ heap["n_bn"].frees = 1
    /\ heap["rsa"].own = "dropped" /\ heap["rsa"].frees = 1

\* C2: no owning wrapper holds a null pointer; a function that returns Ok
\* returns a handle on a live object; a native constructor that gave null makes
\* the function return an error; ec_group_from_nid returns an error for a
\* curve identifier the engine does not know, and evp_key_generate returns an
\* error when the generated key is null; neither panics.
C2_NullNeverWrapped ==
    fn # "validate_evp_key" =>
        /\ \A x \in ObjNames :
              heap[x].own \in Owning \cup {"detached", "dropped", "returned"}
                  => heap[x].st # "null"
        /\ result.tag \in {"none", "Ok", "Err"}
        /\ result.tag = "Ok" =>
              /\ result.handle \in ObjNames
              /\ heap[result.handle].st \in {"live", "freed"}
              /\ heap[result.handle].own \in {"returned", "dropped"}
        /\ (phase # "idle" /\ input.o.at # 0) => result.tag = "Err"
        /\ (fn = "ec_group_from_nid" /\ input.curve_nid \notin KnownNids) =>
              (result.tag = "Err" /\ result.err = "()")
        /\ (fn = "evp_key_generate" /\ heap["pkey"].st = "null") =>
              (result.tag = "Err" /\ result.err = "Unspecified")

\* EVP_PKEY_keygen returned 1 and left a null key: evp_key_generate returned
\* an error and released its context.
C2_Witness ==
    /\ fn = "evp_key_generate" /\ phase = "returned"
    /\ NativeCalled("EVP_PKEY_keygen") /\ input.o.at = 0
    /\ heap["pkey"].st = "null"
    /\ result.tag = "Err"
    /\ heap["pkey_ctx"].frees = 1

\* C3: evp_pkey_from_public_point returns a key only after validate_evp_key
\* succeeded on it; when validation fails it returns an error and the key
\* object, with the EC key it adopted, has been released.
C3_ValidatedBeforeReturn ==
    (fn = "evp_pkey_from_public_point" /\ phase = "returned") =>
        /\ result.tag = "Ok" => ValidatedThenReturned("pkey")
        /\ ValidationFailed =>
              /\ result.tag = "Err"
              /\ heap["pkey"].frees = 1 /\ heap["pkey"].st = "freed"
              /\ heap["ec_key"].frees = 1 /\ heap["ec_key"].st = "freed"

\* The consistency check rejects the key that was just built.
C3_Witness ==
    /\ fn = "evp_pkey_from_public_point" /\ phase = "returned"
    /\ ValidationFailed
    /\ result.tag = "Err" /\ result.err = "Unspecified"
    /\ heap["ec_key"].own = "detached"

\* C4 as stated: every function that creates an EC key (evp_key_generate,
\* evp_pkey_from_public_point, evp_key_from_public_private) has run
\* validate_evp_key on the key it returns.
C4_EveryPathValidates ==
    (fn \in {"evp_key_generate", "evp_pkey_from_public_point",
             "evp_key_from_public_private"}
     /\ phase = "returned" /\ result.tag = "Ok") =>
        ValidatedThenReturned(result.handle)

\* C4 amended: evp_pkey_from_public_point and evp_key_from_public_private
\* run validate_evp_key on the key, successfully, before they return it;
\* evp_key_generate returns the key the engine generated without running
\* validate_evp_key.
C4_ConstructionValidates ==
    (phase = "returned" /\ result.tag = "Ok") =>
        /\ fn \in {"evp_pkey_from_public_point", "evp_key_from_public_private"}
              => ValidatedThenReturned(result.handle)
        /\ fn = "evp_key_generate" =>
              \A k \in 1..Len(trace) : trace[k].ev # "validate"

\* A generated key is returned.
C4_Witness ==
    /\ fn = "evp_key_generate" /\ phase = "returned" /\ result.tag = "Ok"
    /\ result.handle = "pkey" /\ heap["pkey"].st = "live"

KeyHasCurve == ~input.key.ec_key_null /\ ~input.key.group_null

ConsistencyChecked ==
    NativeCalled("EC_KEY_check_key") \/ NativeCalled("EC_KEY_check_fips")

\* C5: validate_evp_key on a key with an embedded curve: when that curve
\* differs from the expected one the result is WrongAlgorithm and the native
\* consistency check has not run, whatever it would have returned; when the
\* curves are equal the check runs, and the result is InconsistentComponents
\* when it fails and Ok otherwise.
C5_ValidateOrder ==
    (fn = "validate_evp_key" /\ KeyHasCurve) =>
        /\ input.key.key_nid # input.expected =>
              /\ result.tag = "Err" /\ result.err = "WrongAlgorithm"
              /\ ~ConsistencyChecked
        /\ input.key.key_nid = input.expected =>
              /\ ConsistencyChecked
              /\ input.key.check_rc # 1 =>
                    (result.tag = "Err" /\ result.err = "InconsistentComponents")
              /\ input.key.check_rc = 1 => result.tag = "Ok"

\* A P-384 key whose consistency check would fail, validated as P-256.
C5_Witness ==
    /\ fn = "validate_evp_key" /\ KeyHasCurve
    /\ input.key.key_nid = "NID_secp384r1"
    /\ input.expected = "NID_X9_62_prime256v1"
    /\ input.key.check_rc = 0
    /\ result.err = "WrongAlgorithm"

\* C6 as stated: in a fips build a key whose consistency check returns
\* success with the verdict NonApprovedMode is rejected.
C6_NonApprovedRejected ==
    (fn = "validate_evp_key" /\ cfg_fips /\ KeyHasCurve
     /\ input.key.key_nid = input.expected
     /\ input.key.check_rc = 1 /\ result.verdict = "NonApprovedMode") =>
        result.tag = "Err"

\* C6 amended: in a fips build the consistency step is EC_KEY_check_fips made
\* through the service-indicator protocol, which yields a verdict, and the key
\* is rejected exactly when the return code of the check is not 1: a key
\* whose check returns 1 is accepted whether the verdict is ApprovedMode or
\* NonApprovedMode.
C6_FipsRejectsByReturnCode ==
    (fn = "validate_evp_key" /\ cfg_fips /\ KeyHasCurve
     /\ input.key.key_nid = input.expected) =>
        /\ NativeCalled("EC_KEY_check_fips")
        /\ result.verdict =
              (IF input.key.check_rc # 1 THEN "Unexpected"
               ELSE IF input.key.approved THEN "ApprovedMode"
               ELSE "NonApprovedMode")
        /\ (result.tag = "Ok") <=> (input.key.check_rc = 1)
        /\ result.tag = "Err" => result.err = "InconsistentComponents"

\* The check returned 1, the verdict is NonApprovedMode, the key is accepted.
C6_Witness ==
    /\ fn = "validate_evp_key" /\ cfg_fips /\ KeyHasCurve
    /\ input.key.key_nid = input.expected
    /\ input.key.check_rc = 1
    /\ result.verdict = "NonApprovedMode"
    /\ result.tag = "Ok"

\* C9: ecdsa_sig_from_fixed returns an error, having made no native call and
\* allocated no native object, for every signature whose length is not
\* 2*fixed_len; for a signature of that length it succeeds unless a native
\* call fails, and the r of the ECDSA_SIG is the number in the first half, the
\* s the number in the second half.
C9_LengthCheckedFirst ==
    (fn = "ecdsa_sig_from_fixed" /\ phase = "returned") =>
        LET L == SpecFixedLen(input.alg_id)
        IN  /\ Len(input.signature) # 2 * L =>
                  /\ result.tag = "Err"
                  /\ \A k \in 1..Len(trace) : trace[k].ev \notin {"call", "alloc"}
                  /\ \A x \in ObjNames : heap[x].st = "none"
            /\ (Len(input.signature) = 2 * L /\ input.o.at = 0) =>
                  result.tag = "Ok"
            /\ result.tag = "Ok" =>
                  /\ Len(input.signature) = 2 * L
                  /\ result.sig.tag = "Ok"
                  /\ PadLeft(L, result.sig.r) = SubSeq(input.signature, 1, L)
                  /\ PadLeft(L, result.sig.s) =
                        SubSeq(input.signature, L + 1, 2 * L)

\* A P-521 signature one byte too long is refused.
C9_Witness ==
    /\ fn = "ecdsa_sig_from_fixed" /\ phase = "returned"
    /\ input.alg_id = "ECDSA_P521"
    /\ Len(input.signature) = 133
    /\ result.tag = "Err" /\ result.err = "()"
    /\ trace = <<Event("return", "Err", "()")>>

\* PublicKeyComponents::verify (key.rs:415-430): build_rsa()?, then the
\* verification of the signature by the engine.
PublicKeyComponents_verify(built, verified) ==
    IF built.tag # "Ok" THEN Err("Unspecified")
    ELSE IF verified THEN Ok(<<>>) ELSE Err("Unspecified")

\* TryInto<PublicEncryptingKey> (key.rs:433-447): build_rsa()?, then
\* PublicEncryptingKey::new on the key.
PublicKeyComponents_try_into(built, accepted) ==
    IF built.tag # "Ok" THEN Err("Unspecified")
    ELSE IF accepted THEN Ok(built.handle) ELSE Err("Unspecified")

\* A component that build_rsa refuses: empty, or with a leading zero byte.
BadComponent(b) == b = <<>> \/ b[1] = 0

\* C22: build_rsa returns an error, and verify and try_into with it,
\* whenever n or e is empty or begins with a zero byte.  n is checked
\* first: with a bad n nothing at all is allocated or called.  With a good
\* n and a bad e nothing is allocated for e or after it, and the big
\* integer built for n has been released once.
C22_ComponentsCheckedFirst ==
    (fn = "build_rsa" /\ phase = "returned"
     /\ (BadComponent(input.n) \/ BadComponent(input.e))) =>
        /\ result.tag = "Err"
        /\ \A ok \in BOOLEAN :
              /\ PublicKeyComponents_verify(result, ok) = Err("Unspecified")
              /\ PublicKeyComponents_try_into(result, ok) = Err("Unspecified")
        /\ BadComponent(input.n) =>
              /\ \A k \in 1..Len(trace) : trace[k].ev \notin {"call", "alloc"}
              /\ \A x \in ObjNames : heap[x].st = "none"
        /\ ~BadComponent(input.n) =>
              /\ AllocatedBy \subseteq {"n_bn"}
              /\ \A x \in ObjNames \ {"n_bn"} : heap[x].st = "none"
              /\ heap["n_bn"].st # "live"
              /\ heap["n_bn"].st = "freed" => heap["n_bn"].frees = 1

\* n is good and e begins with a zero byte: the big integer of n was built
\* and released, nothing was built for e.
C22_Witness ==
    /\ fn = "build_rsa" /\ phase = "returned"
    /\ input.n = <<195, 7>>
    /\ input.e = <<0, 1>>
    /\ result.tag = "Err"
    /\ heap["n_bn"].st = "freed" /\ heap["n_bn"].frees = 1
    /\ heap["e_bn"].st = "none"

\* The locals held in a DetachableLcPtr.
Detachable == {"r_bn", "s_bn", "ec_key", "n_bn", "e_bn", "rsa"}

\* The native call that hands the object of a detachable local to its new
\* owner (ec.rs:376, 470, 580; rsa/key.rs:393, 400).
TransferOf(x) ==
    CASE x \in {"r_bn", "s_bn"} -> "ECDSA_SIG_set0"
      [] x = "ec_key" -> "EVP_PKEY_assign_EC_KEY"
      [] x \in {"n_bn", "e_bn"} -> "RSA_set0_key"
      [] x = "rsa" -> "EVP_PKEY_assign_RSA"
      [] OTHER -> "none"

Detached(x) == \E k \in 1..Len(trace) : trace[k] = Event("detach", x, "")

\* C23: in ecdsa_sig_from_fixed, evp_pkey_from_public_point,
\* evp_key_from_public_private and build_rsa a handle is detached only after
\* its transfer call returned success, and from then on it is neither
\* dereferenced nor detached again and its wrapper releases nothing; when
\* the transfer call fails the handle is not detached and its wrapper
\* releases the object, once.
C23_DetachAfterTransfer ==
    (fn \in {"ecdsa_sig_from_fixed", "evp_pkey_from_public_point",
             "evp_key_from_public_private", "build_rsa"}
     /\ phase = "returned") =>
        \A x \in Detachable :
            /\ \A k \in 1..Len(trace) :
                  trace[k] = Event("detach", x, "") =>
                      /\ \E j \in 1..(k - 1) :
                            trace[j] = Event("call", TransferOf(x), "ok")
                      /\ \A m \in (k + 1)..Len(trace) :
                            ~(trace[m].ev \in {"deref", "detach"} /\ trace[m].what = x)
                      /\ heap[x].own = "detached"
                      /\ heap[x].parent # "none"
            /\ (heap[x].st # "none"
                /\ \E j \in 1..Len(trace) :
                      trace[j] = Event("call", TransferOf(x), "fail")) =>
                      /\ ~Detached(x)
                      /\ result.tag = "Err"
                      /\ heap[x].own = "dropped"
                      /\ heap[x].frees = 1

\* build_rsa: RSA_set0_key succeeded and n_bn and e_bn were detached, then
\* EVP_PKEY_assign_RSA failed: rsa was not detached and its wrapper released
\* it, and n and e with it, once each.
C23_Witness ==
    /\ fn = "build_rsa" /\ phase = "returned"
    /\ \E j \in 1..Len(trace) : trace[j] = Event("call", "EVP_PKEY_assign_RSA", "fail")
    /\ Detached("n_bn") /\ Detached("e_bn") /\ ~Detached("rsa")
    /\ heap["n_bn"].own = "detached" /\ heap["n_bn"].frees = 1
    /\ heap["rsa"].own = "dropped" /\ heap["rsa"].frees = 1
    /\ result.tag = "Err"

-----------------------------------------------------------------------------
(* SpecSig: a conversion applied to an input, then its inverse.            *)

InitSig ==
    /\ cfg_fips \in BOOLEAN
    /\ OwnIdle
    /\ VerIdle
    /\ ExtIdle
    /\ sigAlg \in AlgorithmID
    /\ sigFmt \in {"asn1", "fixed"}
    /\ sigIn \in IF sigFmt = "asn1" THEN DerSigs(sigAlg) \cup MalformedDer
                 ELSE FixedSigs(sigAlg) \cup WrongLenSigs(sigAlg)
    /\ sigStage = "input"
    /\ sigNative = TRUE
    /\ sigOut = Ok(<<>>)
    /\ sigBack = Ok(<<>>)

\* The signing path: ecdsa_asn1_to_fixed on a DER signature.
Asn1ToFixed ==
    /\ sigStage = "input" /\ sigFmt = "asn1"
    /\ \E native_ok \in BOOLEAN :
          /\ sigOut' = ecdsa_asn1_to_fixed(sigAlg, sigIn, native_ok)
          /\ sigNative' = native_ok
    /\ sigStage' = "converted"
    /\ UNCHANGED <<cfg_fips, ownVars, verVars, extVars, sigAlg, sigFmt, sigIn, sigBack>>

\* The verifying path: a fixed signature converted to DER.
FixedToAsn1 ==
    /\ sigStage = "input" /\ sigFmt = "fixed"
    /\ \E native_ok \in BOOLEAN :
          /\ sigOut' = fixed_to_asn1(sigAlg, sigIn, native_ok)
          /\ sigNative' = native_ok
    /\ sigStage' = "converted"
    /\ UNCHANGED <<cfg_fips, ownVars, verVars, extVars, sigAlg, sigFmt, sigIn, sigBack>>

BackToAsn1 ==
    /\ sigStage = "converted" /\ sigFmt = "asn1" /\ sigOut.tag = "Ok"
    /\ \E native_ok \in BOOLEAN :
          /\ sigBack' = fixed_to_asn1(sigAlg, sigOut.val, native_ok)
          /\ sigNative' = (sigNative /\ native_ok)
    /\ sigStage' = "roundtrip"
    /\ UNCHANGED <<cfg_fips, ownVars, verVars, extVars, sigAlg, sigFmt, sigIn, sigOut>>

BackToFixed ==
    /\ sigStage = "converted" /\ sigFmt = "fixed" /\ sigOut.tag = "Ok"
    /\ \E native_ok \in BOOLEAN :
          /\ sigBack' = ecdsa_asn1_to_fixed(sigAlg, sigOut.val, native_ok)
          /\ sigNative' = (sigNative /\ native_ok)
    /\ sigStage' = "roundtrip"
    /\ UNCHANGED <<cfg_fips, ownVars, verVars, extVars, sigAlg, sigFmt, sigIn, sigOut>>

NextSig == Asn1ToFixed \/ FixedToAsn1 \/ BackToAsn1 \/ BackToFixed

SpecSig == InitSig /\ [][NextSig]_vars

SigInParsed == ECDSA_SIG_from_bytes(sigIn)

\* sigIn is a DER signature whose r and s fit the field width of sigAlg.
SigInFits ==
    /\ sigFmt = "asn1"
    /\ SigInParsed.ok
    /\ Len(SigInParsed.r) <= SpecFixedLen(sigAlg)
    /\ Len(SigInParsed.s) <= SpecFixedLen(sigAlg)

\* C7: for a DER signature whose r and s are at most fixed_len bytes long,
\* ecdsa_asn1_to_fixed returns exactly 2*fixed_len bytes, r right-aligned in
\* the first half and s in the second, every other byte zero (fixed_len 32
\* for P-256 and secp256k1, 48 for P-384, 66 for P-521), provided the native
\* allocation of the ECDSA_SIG did not fail.
C7_Asn1ToFixedLayout ==
    (sigStage = "converted" /\ SigInFits /\ sigNative) =>
        LET L == SpecFixedLen(sigAlg)
            r == SigInParsed.r
            s == SigInParsed.s
        IN  /\ sigOut.tag = "Ok"
            /\ Len(sigOut.val) = 2 * L
            /\ \A i \in 1..(2 * L) :
                  sigOut.val[i] =
                      IF i > L - Len(r) /\ i <= L THEN r[i - (L - Len(r))]
                      ELSE IF i > 2 * L - Len(s) THEN s[i - (2 * L - Len(s))]
                      ELSE 0

\* The padding case of the spec: P-256, r of 31 bytes, a leading 0x00.
C7_Witness ==
    /\ sigStage = "converted" /\ SigInFits /\ sigNative
    /\ sigAlg = "ECDSA_P256"
    /\ Len(SigInParsed.r) = 31 /\ Len(SigInParsed.s) = 32
    /\ sigOut.tag = "Ok" /\ sigOut.val[1] = 0 /\ sigOut.val[2] # 0

\* C8: converting a fixed signature of 2*fixed_len bytes to DER and back
\* gives the signature again, and converting a minimal DER signature whose
\* integers fit the width to fixed and back gives it again (no native
\* allocation failing).
C8_RoundTrip ==
    /\ (sigFmt = "fixed" /\ Len(sigIn) = 2 * SpecFixedLen(sigAlg) /\ sigNative) =>
          /\ sigStage = "converted" => sigOut.tag = "Ok"
          /\ sigStage = "roundtrip" => (sigBack.tag = "Ok" /\ sigBack.val = sigIn)
    /\ (SigInFits /\ sigNative) =>
          /\ sigStage = "converted" => sigOut.tag = "Ok"
          /\ sigStage = "roundtrip" => (sigBack.tag = "Ok" /\ sigBack.val = sigIn)

\* A fixed signature with a zero-padded r and an s with its top bit set has
\* been converted to DER and back.
C8_Witness ==
    /\ sigStage = "roundtrip" /\ sigNative /\ sigBack.tag = "Ok"
    /\ sigFmt = "fixed"
    /\ Len(sigIn) = 2 * SpecFixedLen(sigAlg)
    /\ sigIn[1] = 0 /\ sigIn[SpecFixedLen(sigAlg) + 1] = 128

\* C24: ecdsa_asn1_to_fixed never panics: for every input, malformed DER
\* and DER whose r or s is longer than fixed_len included, it returns an
\* error or a signature of exactly 2*fixed_len bytes that holds r and s
\* whole, each left-padded in its own half.
C24_NeverPanics ==
    (sigStage = "converted" /\ sigFmt = "asn1") =>
        /\ sigOut.tag \in {"Ok", "Err"}
        /\ sigOut.tag = "Ok" =>
              LET L == SpecFixedLen(sigAlg)
              IN  /\ Len(sigOut.val) = 2 * L
                  /\ Len(SigInParsed.r) <= L
                  /\ Len(SigInParsed.s) <= L
                  /\ SubSeq(sigOut.val, 1, L) = PadLeft(L, SigInParsed.r)
                  /\ SubSeq(sigOut.val, L + 1, 2 * L) = PadLeft(L, SigInParsed.s)

\* A well-formed DER signature whose r is one byte longer than the field
\* has made the conversion panic.
C24_Panicked ==
    /\ sigStage = "converted" /\ sigFmt = "asn1"
    /\ sigAlg = "ECDSA_P256"
    /\ SigInParsed.ok
    /\ Len(SigInParsed.r) = 33
    /\ sigOut = Panic

-----------------------------------------------------------------------------
(* SpecVerify: verify_sig is called once on a public key, a message and a  *)
(* signature supplied by the caller.                                       *)

\* `?` on a Result whose error is (): From<()> for Unspecified (crate::error);
\* an error that already is Unspecified is passed on.
Unspecified_from(e) == IF e = "()" THEN "Unspecified" ELSE e

\* A public key as the caller supplies it: its first byte, its length, and
\* whether the coordinates it carries satisfy the curve equation.
PublicKey(form, len, on_curve) ==
    [form |-> form, len |-> len, on_curve |-> on_curve]

\* The engine's EC_POINT_oct2point: an uncompressed (4) or compressed (2, 3)
\* encoding of the right length of a point of the curve.
EC_POINT_oct2point(alg_id, bytes) ==
    LET field_len == ecdsa_fixed_number_byte_size(alg_id)
    IN  /\ bytes.on_curve
        /\ \/ bytes.form = 4 /\ bytes.len = 1 + 2 * field_len
           \/ bytes.form \in {2, 3} /\ bytes.len = 1 + field_len

\* The engine's EVP_DigestVerify on a DER signature: 1 when the signature
\* parses, r and s are in range, and (r, s) is the signature of the message
\* under the key (genuine); 0 otherwise.
EVP_DigestVerify(alg_id, signature, genuine) ==
    LET sig == ECDSA_SIG_from_bytes(signature)
        L == ecdsa_fixed_number_byte_size(alg_id)
    IN  IF /\ sig.ok
           /\ sig.r # <<>> /\ Len(sig.r) <= L
           /\ sig.s # <<>> /\ Len(sig.s) <= L
           /\ genuine
        THEN 1 ELSE 0

\* What the engine does during one verification: `fail` is the native call
\* outside evp_pkey_from_public_point that fails, point is the run of
\* evp_pkey_from_public_point.
NoPointFault ==
    [at |-> 0, null_out |-> FALSE, check_rc |-> 1, approved |-> FALSE]

VerifyOracles ==
    {[fail |-> f, point |-> NoPointFault] :
        f \in {"BN_bin2bn", "ECDSA_SIG_to_bytes", "EC_GROUP_new_by_curve_name",
               "EC_POINT_new", "EVP_DigestVerifyInit"}}
    \cup {[fail |-> "none", point |-> po] :
            po \in Oracles(evp_pkey_from_public_point("NID_secp384r1"))}

\* A faulty ec_point_from_bytes: the result of EC_POINT_new is not tested.
ec_point_from_bytes_unchecked_alloc(alg_id, bytes, o) ==
    IF ~EC_POINT_oct2point(alg_id, bytes) THEN Err("Unspecified")
    ELSE Ok(<<>>)

\* A faulty ec_point_from_bytes: the result of EC_POINT_oct2point is not
\* tested.
ec_point_from_bytes_unchecked_decode(alg_id, bytes, o) ==
    IF ~LcPtr_new(IF o.fail = "EC_POINT_new" THEN "null" ELSE "live")
    THEN Err(Unspecified_from("()"))
    ELSE Ok(<<>>)

\* ec_point_from_bytes (ec.rs:486-504).
ec_point_from_bytes(alg_id, bytes, o) ==
    IF ~LcPtr_new(IF o.fail = "EC_POINT_new" THEN "null" ELSE "live")
    THEN Err(Unspecified_from("()"))
    ELSE IF ~EC_POINT_oct2point(alg_id, bytes) THEN Err("Unspecified")
    ELSE Ok(<<>>)

\* evp_pkey_from_public_key (ec.rs:268-278).
evp_pkey_from_public_key(alg_id, public_key, o, fips) ==
    LET group_o == [NoPointFault EXCEPT
                       !.at = IF o.fail = "EC_GROUP_new_by_curve_name"
                              THEN 1 ELSE 0]
        ec_group == Run(ec_group_from_nid(nid(alg_id)), 1,
                        ExecStart(EmptyHeap), group_o, fips).result
        ec_point == ec_point_from_bytes(alg_id, public_key, o)
        pkey == Run(evp_pkey_from_public_point(nid(alg_id)), 1,
                    ExecStart(CallerHeap({"ec_group", "public_ec_point"})),
                    o.point, fips).result
    IN  IF ec_group.tag # "Ok" THEN Err(Unspecified_from(ec_group.err))
        ELSE IF ec_point.tag # "Ok" THEN Err(Unspecified_from(ec_point.err))
        ELSE IF pkey.tag # "Ok" THEN Err(Unspecified_from(pkey.err))
        ELSE Ok(<<>>)

\* A faulty verify_asn1_signature: a signature that does not verify is
\* reported with an error of its own.
verify_asn1_signature_bad_signature(alg_id, public_key, signature, genuine, o, fips) ==
    LET pkey == evp_pkey_from_public_key(alg_id, public_key, o, fips)
    IN  IF pkey.tag # "Ok" THEN Err(Unspecified_from(pkey.err))
        ELSE IF o.fail = "EVP_DigestVerifyInit" THEN Err("Unspecified")
        ELSE IF 1 # EVP_DigestVerify(alg_id, signature, genuine)
        THEN Err("BadSignature")
        ELSE Ok(<<>>)

\* verify_asn1_signature (ec.rs:234-266).
verify_asn1_signature(alg_id, public_key, signature, genuine, o, fips) ==
    LET pkey == evp_pkey_from_public_key(alg_id, public_key, o, fips)
        rc == EVP_DigestVerify(alg_id, signature, genuine)
    IN  IF pkey.tag # "Ok" THEN Err(Unspecified_from(pkey.err))
        ELSE IF o.fail = "EVP_DigestVerifyInit" THEN Err("Unspecified")
        ELSE IF 1 # (IF fips THEN indicator_check(rc, 0, rc).value ELSE rc)
        THEN Err("Unspecified")
        ELSE Ok(<<>>)

\* Mutant of verify_fixed_signature: the bytes are handed to the ASN.1
\* verification as they are, once their length has been checked.
verify_fixed_signature_unconverted(alg_id, public_key, signature, genuine, o, fips) ==
    LET sig == ecdsa_sig_from_fixed_value(alg_id, signature,
                                          o.fail # "BN_bin2bn")
    IN  IF sig.tag # "Ok" THEN Err(Unspecified_from(sig.err))
        ELSE IF o.fail = "ECDSA_SIG_to_bytes" THEN Err("Unspecified")
        ELSE verify_asn1_signature(alg_id, public_key, signature, genuine, o, fips)

\* verify_fixed_signature (ec.rs:214-232).
verify_fixed_signature(alg_id, public_key, signature, genuine, o, fips) ==
    LET sig == ecdsa_sig_from_fixed_value(alg_id, signature,
                                          o.fail # "BN_bin2bn")
    IN  IF sig.tag # "Ok" THEN Err(Unspecified_from(sig.err))
        ELSE IF o.fail = "ECDSA_SIG_to_bytes" THEN Err("Unspecified")
        ELSE verify_asn1_signature(alg_id, public_key,
                                   ECDSA_SIG_to_bytes(sig), genuine, o, fips)

\* verify_sig (ec.rs:197-211).
verify_sig(sig_format, alg_id, public_key, signature, genuine, o, fips) ==
    IF sig_format = "ASN1"
    THEN verify_asn1_signature(alg_id, public_key, signature, genuine, o, fips)
    ELSE verify_fixed_signature(alg_id, public_key, signature, genuine, o, fips)

\* The calls verify_asn1_signature makes on the digest context
\* (ec.rs:246-263), in order.
verify_asn1_signature_calls(alg_id, public_key, signature, o, fips) ==
    IF evp_pkey_from_public_key(alg_id, public_key, o, fips).tag # "Ok" THEN <<>>
    ELSE IF o.fail = "EVP_DigestVerifyInit" THEN <<"EVP_DigestVerifyInit">>
    ELSE <<"EVP_DigestVerifyInit", "EVP_DigestVerify">>

\* The calls of verify_fixed_signature after ecdsa_sig_from_fixed
\* (ec.rs:221-231), in order.
verify_fixed_signature_calls(alg_id, public_key, signature, o, fips) ==
    LET sig == ecdsa_sig_from_fixed_value(alg_id, signature,
                                          o.fail # "BN_bin2bn")
    IN  IF sig.tag # "Ok" THEN <<>>
        ELSE IF o.fail = "ECDSA_SIG_to_bytes" THEN <<"ECDSA_SIG_to_bytes">>
        ELSE <<"ECDSA_SIG_to_bytes">>
             \o verify_asn1_signature_calls(alg_id, public_key,
                                            ECDSA_SIG_to_bytes(sig), o, fips)

\* The calls of verify_sig (ec.rs:197-211).
verify_sig_calls(sig_format, alg_id, public_key, signature, o, fips) ==
    IF sig_format = "ASN1"
    THEN verify_asn1_signature_calls(alg_id, public_key, signature, o, fips)
    ELSE verify_fixed_signature_calls(alg_id, public_key, signature, o, fips)

\* Public keys: well-formed uncompressed and compressed, off the curve,
\* truncated, with an unknown first byte, empty.
PublicKeys(alg_id) ==
    LET L == ecdsa_fixed_number_byte_size(alg_id)
    IN  {PublicKey(4, 1 + 2 * L, TRUE), PublicKey(2, 1 + L, TRUE),
         PublicKey(4, 1 + 2 * L, FALSE), PublicKey(4, 2 * L, TRUE),
         PublicKey(0, 1 + 2 * L, TRUE), PublicKey(0, 0, FALSE)}

\* DER signatures passed to the verifier: in range, with r = 0, with r one
\* byte longer than the field, and malformed ones.
VerifyDerSigs(alg_id) ==
    LET L == ecdsa_fixed_number_byte_size(alg_id)
    IN  {ECDSA_SIG_to_bytes(SigOk(r, Mag(L, 128, 0))) :
            r \in {Mag(n, 1, 255) : n \in (0..MaxShort) \cup {L + MaxOver}}}
        \cup MalformedDer

InitVerify ==
    /\ cfg_fips \in BOOLEAN
    /\ OwnIdle
    /\ SigIdle
    /\ ExtIdle
    /\ \E sig_format \in {"ASN1", "Fixed"} : \E alg_id \in AlgorithmID :
          vIn \in [sig_format : {sig_format},
                   alg_id : {alg_id},
                   public_key : PublicKeys(alg_id),
                   signature : IF sig_format = "ASN1"
                               THEN VerifyDerSigs(alg_id)
                               ELSE CallSigs(alg_id),
                   genuine : BOOLEAN,
                   o : VerifyOracles]
    /\ vStage = "input"
    /\ vOut = Ok(<<>>)
    /\ vCalls = <<>>

Call_verify_sig ==
    /\ vStage = "input"
    /\ vOut' = verify_sig(vIn.sig_format, vIn.alg_id, vIn.public_key,
                          vIn.signature, vIn.genuine, vIn.o, cfg_fips)
    /\ vCalls' = verify_sig_calls(vIn.sig_format, vIn.alg_id, vIn.public_key,
                                  vIn.signature, vIn.o, cfg_fips)
    /\ vStage' = "returned"
    /\ UNCHANGED <<cfg_fips, ownVars, sigVars, extVars, vIn>>

\* ec_point_from_bytes alone, on the public key of vIn.
Call_ec_point_from_bytes ==
    /\ vStage = "input"
    /\ vOut' = ec_point_from_bytes(vIn.alg_id, vIn.public_key, vIn.o)
    /\ vStage' = "decoded"
    /\ UNCHANGED <<cfg_fips, ownVars, sigVars, extVars, vIn, vCalls>>

NextVerify == Call_verify_sig \/ Call_ec_point_from_bytes

SpecVerify == InitVerify /\ [][NextVerify]_vars

\* The DER signature the engine is asked to verify.
VerifiedDer ==
    IF vIn.sig_format = "ASN1" THEN vIn.signature
    ELSE ECDSA_SIG_to_bytes(
             ecdsa_sig_from_fixed_value(vIn.alg_id, vIn.signature, TRUE))

\* C10: verify_sig returns Ok or the one error value Unspecified; it returns
\* Unspecified for a fixed signature of the wrong length, for a malformed DER
\* signature, for a public key that is malformed or off the curve, for a key
\* that validation rejects and for a signature that does not verify, as for
\* any failure of the engine; and it returns Ok when none of these happens.
C10_FailuresAreUnspecified ==
    vStage = "returned" =>
        LET L == SpecFixedLen(vIn.alg_id)
            wrong_len == vIn.sig_format = "Fixed" /\ Len(vIn.signature) # 2 * L
            malformed_der == /\ vIn.sig_format = "ASN1"
                             /\ ~ECDSA_SIG_from_bytes(vIn.signature).ok
            bad_key == \/ ~vIn.public_key.on_curve
                       \/ /\ ~(vIn.public_key.form = 4
                               /\ vIn.public_key.len = 1 + 2 * L)
                          /\ ~(vIn.public_key.form \in {2, 3}
                               /\ vIn.public_key.len = 1 + L)
            rejected == vIn.o.point.check_rc # 1
            engine == vIn.o.fail # "none" \/ vIn.o.point.at # 0
            out_of_range ==
                /\ ~wrong_len /\ ~malformed_der
                /\ LET sig == ECDSA_SIG_from_bytes(VerifiedDer)
                   IN  \/ sig.r = <<>> \/ Len(sig.r) > L
                       \/ sig.s = <<>> \/ Len(sig.s) > L
            failed == \/ wrong_len \/ malformed_der \/ bad_key \/ rejected
                      \/ out_of_range \/ ~vIn.genuine
        IN  /\ vOut \in {Ok(<<>>), Err("Unspecified")}
            /\ failed => vOut = Err("Unspecified")
            /\ (~failed /\ ~engine) => vOut = Ok(<<>>)

\* A well-formed signature that does not verify under a well-formed key that
\* validation accepted, in the fixed format.
C10_Witness ==
    /\ vStage = "returned"
    /\ vIn.sig_format = "Fixed"
    /\ Len(vIn.signature) = 2 * SpecFixedLen(vIn.alg_id)
    /\ vIn.public_key = PublicKey(4, 1 + 2 * SpecFixedLen(vIn.alg_id), TRUE)
    /\ vIn.o = [fail |-> "none", point |-> NoPointFault]
    /\ ~vIn.genuine
    /\ vOut = Err("Unspecified")

\* The public key of vIn is an encoding EC_POINT_oct2point accepts.
KeyWellFormed == EC_POINT_oct2point(vIn.alg_id, vIn.public_key)

\* A native constructor returned null during the verification.
ConstructionFailed ==
    \/ vIn.o.fail \in {"EC_GROUP_new_by_curve_name", "EC_POINT_new"}
    \/ vIn.o.fail = "BN_bin2bn" /\ vIn.sig_format = "Fixed"
    \/ /\ vIn.o.point.at # 0
       /\ evp_pkey_from_public_point(nid(vIn.alg_id))[vIn.o.point.at].op = "new"

\* The same call with no failure of the engine and a signature that does not
\* verify.
VerificationFailure ==
    verify_sig(vIn.sig_format, vIn.alg_id, vIn.public_key, vIn.signature, FALSE,
               [fail |-> "none", point |-> NoPointFault], cfg_fips)

\* C11 as stated: when a native constructor returns null during a
\* verification, verify_sig reports an error that differs from the one it
\* reports for the same call when the signature does not verify.
C11_ConstructionDistinguishable ==
    (vStage = "returned" /\ ConstructionFailed) =>
        (vOut.tag = "Err" /\ vOut # VerificationFailure)

\* C11 amended: when a native constructor returns null during a
\* verification, verify_sig reports it to the caller as an error, and the
\* error is Unspecified, the value it also reports when the signature does
\* not verify or the input is malformed.
C11_ConstructionFailureUnspecified ==
    (vStage = "returned" /\ ConstructionFailed) =>
        /\ vOut = Err("Unspecified")
        /\ vOut = VerificationFailure

\* EC_POINT_new returns null while a genuine signature is verified under a
\* well-formed key.
C11_Witness ==
    /\ vStage = "returned"
    /\ vIn.o.fail = "EC_POINT_new"
    /\ KeyWellFormed /\ vIn.genuine
    /\ vIn.sig_format = "ASN1" /\ ECDSA_SIG_from_bytes(vIn.signature).ok
    /\ vOut = Err("Unspecified")

\* What ec_point_from_bytes returns for the same bytes when EC_POINT_new
\* returns null.
AllocationFailure ==
    ec_point_from_bytes(vIn.alg_id, vIn.public_key,
                        [vIn.o EXCEPT !.fail = "EC_POINT_new"])

\* C12 as stated: for a malformed encoding (wrong length, invalid first
\* byte, point off the curve) ec_point_from_bytes reports an error that
\* differs from the error it reports when EC_POINT_new fails.
C12_InvalidEncodingDistinguished ==
    (vStage = "decoded" /\ ~KeyWellFormed /\ vIn.o.fail # "EC_POINT_new") =>
        (vOut.tag = "Err" /\ vOut.err # AllocationFailure.err)

\* C12 amended: ec_point_from_bytes returns the error Unspecified for a
\* malformed encoding (wrong length, invalid first byte, point off the curve)
\* and the same error Unspecified when EC_POINT_new fails; it returns Ok for
\* a well-formed encoding when the allocation succeeds.
C12_PointErrorsUnspecified ==
    vStage = "decoded" =>
        /\ ~KeyWellFormed => vOut = Err("Unspecified")
        /\ vIn.o.fail = "EC_POINT_new" => vOut = Err("Unspecified")
        /\ (KeyWellFormed /\ vIn.o.fail # "EC_POINT_new") => vOut = Ok(<<>>)
        /\ AllocationFailure = Err("Unspecified")

\* An off-curve point of the right length and form, the allocation
\* succeeding.
C12_Witness ==
    /\ vStage = "decoded"
    /\ vIn.public_key.form = 4
    /\ vIn.public_key.len = 1 + 2 * SpecFixedLen(vIn.alg_id)
    /\ ~vIn.public_key.on_curve
    /\ vIn.o.fail = "none"
    /\ vOut = Err("Unspecified")

\* The conversion of the fixed signature of vIn to DER, as the engine of
\* this run carries it out.
ConvertedToAsn1 ==
    fixed_to_asn1(vIn.alg_id, vIn.signature,
                  vIn.o.fail \notin {"BN_bin2bn", "ECDSA_SIG_to_bytes"})

\* C25: verify_sig on a fixed-width signature returns what verify_sig with
\* the ASN.1 format of the same curve returns on the DER form of that
\* signature, for the same public key and message, and makes the same calls
\* on the digest context; when the conversion of the fixed signature fails
\* it returns Unspecified and EVP_DigestVerify is not called.
C25_SingleVerificationPath ==
    (vStage = "returned" /\ vIn.sig_format = "Fixed") =>
        IF ConvertedToAsn1.tag = "Ok"
        THEN /\ vOut = verify_sig("ASN1", vIn.alg_id, vIn.public_key,
                                  ConvertedToAsn1.val, vIn.genuine, vIn.o, cfg_fips)
             /\ vCalls = <<"ECDSA_SIG_to_bytes">>
                         \o verify_sig_calls("ASN1", vIn.alg_id, vIn.public_key,
                                             ConvertedToAsn1.val, vIn.o, cfg_fips)
        ELSE /\ vOut = Err("Unspecified")
             /\ \A k \in 1..Len(vCalls) :
                   vCalls[k] \notin {"EVP_DigestVerifyInit", "EVP_DigestVerify"}

\* A genuine fixed signature was converted and verified by EVP_DigestVerify
\* on its DER form.
C25_Witness ==
    /\ vStage = "returned" /\ vIn.sig_format = "Fixed"
    /\ ConvertedToAsn1.tag = "Ok"
    /\ ConvertedToAsn1.val # vIn.signature
    /\ vCalls = <<"ECDSA_SIG_to_bytes", "EVP_DigestVerifyInit", "EVP_DigestVerify">>
    /\ vOut = Ok(<<>>)

-----------------------------------------------------------------------------
(* SpecMarshal: a point or a private scalar is marshaled to bytes.         *)

\* ec.rs:48-54.
ELEM_MAX_BITS == 521
ELEM_MAX_BYTES == (ELEM_MAX_BITS + 7) \div 8
SCALAR_MAX_BYTES == ELEM_MAX_BYTES
PUBLIC_KEY_MAX_LEN == 1 + (2 * ELEM_MAX_BYTES)

\* An affine point: its coordinates as field elements of the curve's width.
EcPoint(x, y) == [x |-> x, y |-> y]

NoPoint == EcPoint(<<>>, <<>>)

\* The points of the curve of alg_id the model knows of: for each x, the two
\* points (x, y) and (x, -y), whose y differ in their last bit.
CurvePoints(alg_id) ==
    LET L == ecdsa_fixed_number_byte_size(alg_id)
    IN  {EcPoint(x, y) :
            x \in {PadLeft(L, Mag(n, 1, 255)) : n \in 1..MaxShort}
                  \cup {Mag(L, 128, 0)},
            y \in {Mag(L, 7, 2), Mag(L, 9, 3)}}

\* The engine's EC_POINT_point2oct: the encoding, or nothing (out_len 0) when
\* it does not fit max_len or the engine fails.
EC_POINT_point2oct(alg_id, point, form, max_len, native_ok) ==
    LET L == ecdsa_fixed_number_byte_size(alg_id)
        out == IF form = "POINT_CONVERSION_COMPRESSED"
               THEN <<2 + (point.y[L] % 2)>> \o point.x
               ELSE <<4>> \o point.x \o point.y
    IN  IF native_ok /\ Len(out) <= max_len THEN out ELSE <<>>

\* The point the engine's EC_POINT_oct2point decodes, NoPoint when it fails.
EC_POINT_oct2point_value(alg_id, bytes) ==
    LET L == ecdsa_fixed_number_byte_size(alg_id)
    IN  IF Len(bytes) = 1 + 2 * L /\ bytes[1] = 4
        THEN LET p == EcPoint(SubSeq(bytes, 2, L + 1),
                              SubSeq(bytes, L + 2, 2 * L + 1))
             IN  IF p \in CurvePoints(alg_id) THEN p ELSE NoPoint
        ELSE IF Len(bytes) = 1 + L /\ bytes[1] \in {2, 3}
        THEN LET ps == {p \in CurvePoints(alg_id) :
                           /\ p.x = SubSeq(bytes, 2, L + 1)
                           /\ p.y[L] % 2 = bytes[1] - 2}
             IN  IF ps = {} THEN NoPoint ELSE CHOOSE p \in ps : TRUE
        ELSE NoPoint

\* The bytes as ec_point_from_bytes sees them.
OctetsOf(alg_id, bytes) ==
    PublicKey(IF bytes = <<>> THEN 0 ELSE bytes[1], Len(bytes),
              EC_POINT_oct2point_value(alg_id, bytes) # NoPoint)

\* A faulty ec_point_to_bytes: the compressed form is asked of the engine.
ec_point_to_bytes_compressed(alg_id, ec_point, native_ok) ==
    LET out == EC_POINT_point2oct(alg_id, ec_point,
                                  "POINT_CONVERSION_COMPRESSED",
                                  PUBLIC_KEY_MAX_LEN, native_ok)
    IN  IF Len(out) = 0 THEN Err("Unspecified") ELSE Ok(out)

\* ec_point_to_bytes (ec.rs:506-527); the value is the first out_len bytes
\* of buf.
ec_point_to_bytes(alg_id, ec_point, native_ok) ==
    LET pt_conv_form == "POINT_CONVERSION_UNCOMPRESSED"
        out == EC_POINT_point2oct(alg_id, ec_point, pt_conv_form,
                                  PUBLIC_KEY_MAX_LEN, native_ok)
    IN  IF Len(out) = 0 THEN Err("Unspecified") ELSE Ok(out)

\* The engine's BN_bn2bin_padded: rc 0 when bn does not fit len bytes, else
\* bn right-aligned in the first len bytes of out.
BN_bn2bin_padded(out, len, bn) ==
    IF Len(bn) > len THEN [rc |-> 0, out |-> out]
    ELSE [rc |-> 1,
          out |-> copy_from_slice(out, len - Len(bn), len, bn)]

\* A private key as marshal_private_key_to_buffer sees it.
PrivateKey(ec_key_null, private_null, private_bn) ==
    [ec_key_null |-> ec_key_null, private_null |-> private_null,
     private_bn |-> private_bn]

\* A faulty marshal_private_key_to_buffer: the scalar is written without
\* padding (BN_bn2bin).
marshal_private_key_to_buffer_unpadded(alg_id, evp_pkey, debug_assertions) ==
    IF evp_pkey.ec_key_null \/ evp_pkey.private_null THEN Err("Unspecified")
    ELSE IF Len(evp_pkey.private_bn) > ecdsa_fixed_number_byte_size(alg_id)
    THEN Err("Unspecified")
    ELSE Ok(evp_pkey.private_bn)

\* marshal_private_key_to_buffer (ec.rs:307-326); debug_assertions is the
\* build setting that enables debug_assert!.
marshal_private_key_to_buffer(alg_id, evp_pkey, debug_assertions) ==
    IF evp_pkey.ec_key_null THEN Err(Unspecified_from("()"))
    ELSE IF evp_pkey.private_null THEN Err(Unspecified_from("()"))
    ELSE LET private_size == ecdsa_fixed_number_byte_size(alg_id)
             size == Len(evp_pkey.private_bn)
             padded == BN_bn2bin_padded(Zeros(SCALAR_MAX_BYTES), private_size,
                                        evp_pkey.private_bn)
         IN  IF debug_assertions /\ ~(size <= private_size) THEN Panic
             ELSE IF 1 # padded.rc THEN Err("Unspecified")
             ELSE Ok(SubSeq(padded.out, 1, private_size))

\* Private keys: without an EC key, without a private scalar, and with
\* scalars of every length in MagLens.
PrivateKeys(alg_id) ==
    {PrivateKey(TRUE, TRUE, <<>>), PrivateKey(FALSE, TRUE, <<>>)}
    \cup {PrivateKey(FALSE, FALSE, bn) :
             bn \in Mags(ecdsa_fixed_number_byte_size(alg_id))}

InitMarshal ==
    /\ cfg_fips \in BOOLEAN
    /\ OwnIdle
    /\ SigIdle
    /\ VerIdle
    /\ ExtIdle

\* form is the form the caller would like; ec_point_to_bytes has no
\* parameter for it.
Call_ec_point_to_bytes ==
    /\ mFn = "none"
    /\ \E alg_id \in AlgorithmID : \E ec_point \in CurvePoints(alg_id) :
       \E form \in {"compressed", "uncompressed"} : \E native_ok \in BOOLEAN :
          /\ mIn' = [alg_id |-> alg_id, ec_point |-> ec_point, form |-> form,
                     native_ok |-> native_ok]
          /\ mOut' = ec_point_to_bytes(alg_id, ec_point, native_ok)
    /\ mFn' = "ec_point_to_bytes"
    /\ UNCHANGED <<cfg_fips, ownVars, sigVars, verVars, nonceVars, laterVars, mBack>>

\* The bytes that ec_point_to_bytes returned are decoded again.
Call_ec_point_from_bytes_back ==
    /\ mFn = "ec_point_to_bytes" /\ mOut.tag = "Ok"
    /\ \E native_ok \in BOOLEAN :
          LET o == [fail |-> IF native_ok THEN "none" ELSE "EC_POINT_new",
                    point |-> NoPointFault]
              res == ec_point_from_bytes(mIn.alg_id,
                                         OctetsOf(mIn.alg_id, mOut.val), o)
          IN  mBack' = [tag |-> res.tag,
                        point |-> IF res.tag = "Ok"
                                  THEN EC_POINT_oct2point_value(mIn.alg_id,
                                                                mOut.val)
                                  ELSE NoPoint,
                        native_ok |-> native_ok]
    /\ mFn' = "ec_point_from_bytes"
    /\ UNCHANGED <<cfg_fips, ownVars, sigVars, verVars, nonceVars, laterVars, mIn, mOut>>

Call_marshal_private_key_to_buffer ==
    /\ mFn = "none"
    /\ \E alg_id \in AlgorithmID : \E evp_pkey \in PrivateKeys(alg_id) :
       \E debug_assertions \in BOOLEAN :
          /\ mIn' = [alg_id |-> alg_id, evp_pkey |-> evp_pkey,
                     debug_assertions |-> debug_assertions]
          /\ mOut' = marshal_private_key_to_buffer(alg_id, evp_pkey,
                                                   debug_assertions)
    /\ mFn' = "marshal_private_key_to_buffer"
    /\ UNCHANGED <<cfg_fips, ownVars, sigVars, verVars, nonceVars, laterVars, mBack>>

NextMarshal ==
    \/ Call_ec_point_to_bytes
    \/ Call_ec_point_from_bytes_back
    \/ Call_marshal_private_key_to_buffer

SpecMarshal == InitMarshal /\ [][NextMarshal]_vars

\* C13 as stated: with compressed requested the output of ec_point_to_bytes
\* is 1 + fixed_len bytes starting with 2 or 3, with uncompressed requested it
\* is 1 + 2*fixed_len bytes starting with 4.
C13_HonoursRequestedForm ==
    (mFn = "ec_point_to_bytes" /\ mOut.tag = "Ok") =>
        LET L == SpecFixedLen(mIn.alg_id)
        IN  /\ mIn.form = "compressed" =>
                  (Len(mOut.val) = 1 + L /\ mOut.val[1] \in {2, 3})
            /\ mIn.form = "uncompressed" =>
                  (Len(mOut.val) = 1 + 2 * L /\ mOut.val[1] = 4)

\* C13 amended: ec_point_to_bytes takes no form and always encodes
\* uncompressed: whenever the engine succeeds the output is 4 followed by X and
\* Y, 1 + 2*fixed_len bytes, at most PUBLIC_KEY_MAX_LEN = 133; and
\* ec_point_from_bytes of the output, when its allocation succeeds, gives the
\* original point.
C13_AlwaysUncompressed ==
    /\ PUBLIC_KEY_MAX_LEN = 133
    /\ mFn \in {"ec_point_to_bytes", "ec_point_from_bytes"} =>
          LET L == SpecFixedLen(mIn.alg_id)
          IN  /\ mIn.native_ok <=> mOut.tag = "Ok"
              /\ mOut.tag = "Ok" =>
                    /\ mOut.val = <<4>> \o mIn.ec_point.x \o mIn.ec_point.y
                    /\ Len(mOut.val) = 1 + 2 * L
                    /\ Len(mOut.val) <= PUBLIC_KEY_MAX_LEN
    /\ (mFn = "ec_point_from_bytes" /\ mBack.native_ok) =>
          (mBack.tag = "Ok" /\ mBack.point = mIn.ec_point)

\* The caller would like the compressed form of a P-521 point; the 133 bytes
\* of the uncompressed form are returned and decode to the point.
C13_Witness ==
    /\ mFn = "ec_point_from_bytes"
    /\ mIn.alg_id = "ECDSA_P521" /\ mIn.form = "compressed"
    /\ Len(mOut.val) = 133 /\ mOut.val[1] = 4
    /\ mBack.tag = "Ok" /\ mBack.point = mIn.ec_point

\* C14: whenever marshal_private_key_to_buffer succeeds it returns exactly
\* fixed_len bytes (32 for P-256 and secp256k1, 48 for P-384, 66 for P-521):
\* the scalar big-endian, right-aligned, every byte before it zero; and it
\* succeeds for every key whose scalar is at most fixed_len bytes long.
C14_PrivateKeyFixedWidth ==
    mFn = "marshal_private_key_to_buffer" =>
        LET L == SpecFixedLen(mIn.alg_id)
            bn == mIn.evp_pkey.private_bn
        IN  /\ mOut.tag = "Ok" =>
                  /\ Len(mOut.val) = L
                  /\ ~mIn.evp_pkey.ec_key_null /\ ~mIn.evp_pkey.private_null
                  /\ Len(bn) <= L
                  /\ \A i \in 1..L :
                        mOut.val[i] = IF i > L - Len(bn)
                                      THEN bn[i - (L - Len(bn))] ELSE 0
            /\ (~mIn.evp_pkey.ec_key_null /\ ~mIn.evp_pkey.private_null
                /\ Len(bn) <= L) => mOut.tag = "Ok"

\* A P-521 scalar of one byte: 65 zero bytes precede it.
C14_Witness ==
    /\ mFn = "marshal_private_key_to_buffer"
    /\ mIn.alg_id = "ECDSA_P521"
    /\ Len(mIn.evp_pkey.private_bn) = 1 /\ ~mIn.evp_pkey.private_null
    /\ mOut.tag = "Ok" /\ Len(mOut.val) = 66
    /\ mOut.val[65] = 0 /\ mOut.val[66] = mIn.evp_pkey.private_bn[1]

-----------------------------------------------------------------------------
(* SpecNonce: nonce sequences are built and advanced                       *)
(* (aead/nonce_sequence.rs).                                               *)

MaxAdvance == 3

\* A u64 is four 16-bit limbs, the most significant first.
U64(l3, l2, l1, l0) == <<l3, l2, l1, l0>>

\* u64::wrapping_add for a small rhs: addition modulo 2^64.
wrapping_add(u, rhs) ==
    LET s0 == u[4] + rhs
        s1 == u[3] + (s0 \div 65536)
        s2 == u[2] + (s1 \div 65536)
        s3 == u[1] + (s2 \div 65536)
    IN  <<s3 % 65536, s2 % 65536, s1 % 65536, s0 % 65536>>

\* u64::to_be_bytes.
u64_to_be_bytes(u) ==
    [i \in 1..8 |-> IF i % 2 = 1 THEN u[(i + 1) \div 2] \div 256
                    ELSE u[i \div 2] % 256]

Nonce(nonce_bytes) == nonce_bytes

\* PredictableNonceSequence::starting_from (nonce_sequence.rs:38-41).
PredictableNonceSequence_starting_from(position) == [position |-> position]

\* PredictableNonceSequence::new (nonce_sequence.rs:31-34).
PredictableNonceSequence_new ==
    PredictableNonceSequence_starting_from(U64(0, 0, 0, 0))

\* A faulty advance: the nonce is made of the counter before its increment.
PredictableNonceSequence_advance_stale(self) ==
    LET bytes == u64_to_be_bytes(self.position)
        nonce_bytes == copy_from_slice(Zeros(12), 4, 12, bytes)
    IN  [self |-> [self EXCEPT !.position = wrapping_add(self.position, 1)],
         result |-> Ok(Nonce(nonce_bytes))]

\* PredictableNonceSequence::advance (nonce_sequence.rs:44-52): the sequence
\* after the call and what the call returns.
PredictableNonceSequence_advance(self) ==
    LET position == wrapping_add(self.position, 1)
        bytes == u64_to_be_bytes(position)
        nonce_bytes == copy_from_slice(Zeros(12), 4, 12, bytes)
    IN  [self |-> [self EXCEPT !.position = position],
         result |-> Ok(Nonce(nonce_bytes))]

\* SymmetricCipherKey::encrypt_block for an AES-128 key (aead::cipher): a
\* keyed function of the block, the same for the same key and block.
encrypt_block(aes_key, block) ==
    Ok([i \in 1..16 |-> (block[i] + aes_key[i] + i) % 256])

\* UnpredictableNonceSequence::using_key_and_position
\* (nonce_sequence.rs:136-145).
using_key_and_position(key, position) ==
    [aes_key |-> key, position |-> position]

\* UnpredictableNonceSequence::using_key (nonce_sequence.rs:127-129).
using_key(key) == using_key_and_position(key, U64(0, 0, 0, 0))

\* A faulty starting_from: the sequence is built at counter 0.
UnpredictableNonceSequence_starting_from_zero(key, position) ==
    <<key, using_key(key)>>

\* UnpredictableNonceSequence::starting_from (nonce_sequence.rs:112-118);
\* key is what NonceSequenceKey::new() generated.
UnpredictableNonceSequence_starting_from(key, position) ==
    <<key, using_key_and_position(key, position)>>

\* UnpredictableNonceSequence::new (nonce_sequence.rs:99-105).
UnpredictableNonceSequence_new(key) ==
    <<key, using_key_and_position(key, U64(0, 0, 0, 0))>>

\* UnpredictableNonceSequence::advance (nonce_sequence.rs:149-159).
UnpredictableNonceSequence_advance(self) ==
    LET position == wrapping_add(self.position, 1)
        block_bytes == copy_from_slice(Zeros(16), 4, 12,
                                       u64_to_be_bytes(position))
        encrypted_block == encrypt_block(self.aes_key, block_bytes)
    IN  [self |-> [self EXCEPT !.position = position],
         result |-> IF encrypted_block.tag # "Ok" THEN Err("Unspecified")
                    ELSE Ok(Nonce(SubSeq(encrypted_block.val, 1, 12)))]

\* Starting counters: 0, the value of test_predictable, values whose
\* increment carries into the next limbs, and the last values before the
\* counter wraps.
Positions ==
    {U64(0, 0, 0, 0), U64(0, 2, 19632, 5866), U64(0, 0, 0, 65535),
     U64(0, 65535, 65535, 65535), U64(65535, 65535, 65535, 65534),
     U64(65535, 65535, 65535, 65535)}

\* 128-bit keys.
NonceSequenceKeys == {[i \in 1..16 |-> b] : b \in {0, 1, 200}}

NoLog == [ctor |-> "none", start |-> <<>>, count |-> 0, nonce |-> <<>>]

InitNonce ==
    /\ cfg_fips \in BOOLEAN
    /\ OwnIdle
    /\ SigIdle
    /\ VerIdle
    /\ ExtIdle

Built(ctor, start) == [NoLog EXCEPT !.ctor = ctor, !.start = start]

Predictable_new ==
    /\ nsLog = <<>>
    /\ pns' = PredictableNonceSequence_new
    /\ nsLog' = [p |-> Built("new", U64(0, 0, 0, 0)), u1 |-> NoLog, u2 |-> NoLog]
    /\ UNCHANGED <<cfg_fips, ownVars, sigVars, verVars, marVars, laterVars, uns1, uns2,
                   nsKey>>

Predictable_starting_from ==
    /\ nsLog = <<>>
    /\ \E position \in Positions :
          /\ pns' = PredictableNonceSequence_starting_from(position)
          /\ nsLog' = [p |-> Built("starting_from", position), u1 |-> NoLog,
                       u2 |-> NoLog]
    /\ UNCHANGED <<cfg_fips, ownVars, sigVars, verVars, marVars, laterVars, uns1, uns2,
                   nsKey>>

Predictable_advance ==
    /\ nsLog # <<>> /\ nsLog.p.ctor # "none"
    /\ nsLog.p.count < MaxAdvance
    /\ \E adv \in {PredictableNonceSequence_advance(pns)} :
          /\ pns' = adv.self
          /\ nsLog' = [nsLog EXCEPT !.p.count = @ + 1,
                                    !.p.nonce = adv.result]
    /\ UNCHANGED <<cfg_fips, ownVars, sigVars, verVars, marVars, laterVars, uns1, uns2,
                   nsKey>>

Unpredictable_new ==
    /\ nsLog = <<>>
    /\ \E key \in NonceSequenceKeys :
       \E made \in {UnpredictableNonceSequence_new(key)} :
          /\ nsKey' = made[1]
          /\ uns1' = made[2]
    /\ nsLog' = [p |-> NoLog, u1 |-> Built("new", U64(0, 0, 0, 0)), u2 |-> NoLog]
    /\ UNCHANGED <<cfg_fips, ownVars, sigVars, verVars, marVars, laterVars, pns, uns2>>

Unpredictable_starting_from ==
    /\ nsLog = <<>>
    /\ \E key \in NonceSequenceKeys : \E position \in Positions :
       \E made \in {UnpredictableNonceSequence_starting_from(key, position)} :
          /\ nsKey' = made[1]
          /\ uns1' = made[2]
          /\ nsLog' = [p |-> NoLog, u1 |-> Built("starting_from", position),
                       u2 |-> NoLog]
    /\ UNCHANGED <<cfg_fips, ownVars, sigVars, verVars, marVars, laterVars, pns, uns2>>

\* uns2 is rebuilt from the key returned with uns1.
Unpredictable_using_key ==
    /\ nsLog # <<>> /\ nsLog.u1.ctor # "none" /\ nsLog.u2.ctor = "none"
    /\ uns2' = using_key(nsKey)
    /\ nsLog' = [nsLog EXCEPT !.u2 = Built("using_key", U64(0, 0, 0, 0))]
    /\ UNCHANGED <<cfg_fips, ownVars, sigVars, verVars, marVars, laterVars, pns, uns1,
                   nsKey>>

\* uns2 is rebuilt from the key returned with uns1, or built from another
\* key (From<&[u8; 16]>), at any position.
Unpredictable_using_key_and_position ==
    /\ nsLog # <<>> /\ nsLog.u1.ctor # "none" /\ nsLog.u2.ctor = "none"
    /\ \E key \in NonceSequenceKeys : \E position \in Positions :
          /\ uns2' = using_key_and_position(key, position)
          /\ nsLog' = [nsLog EXCEPT !.u2 = Built("using_key_and_position",
                                                 position)]
    /\ UNCHANGED <<cfg_fips, ownVars, sigVars, verVars, marVars, laterVars, pns, uns1,
                   nsKey>>

Unpredictable_advance1 ==
    /\ nsLog # <<>> /\ nsLog.u1.ctor # "none"
    /\ nsLog.u1.count < MaxAdvance
    /\ \E adv \in {UnpredictableNonceSequence_advance(uns1)} :
          /\ uns1' = adv.self
          /\ nsLog' = [nsLog EXCEPT !.u1.count = @ + 1,
                                    !.u1.nonce = adv.result]
    /\ UNCHANGED <<cfg_fips, ownVars, sigVars, verVars, marVars, laterVars, pns, uns2,
                   nsKey>>

Unpredictable_advance2 ==
    /\ nsLog # <<>> /\ nsLog.u2.ctor # "none"
    /\ nsLog.u2.count < MaxAdvance
    /\ \E adv \in {UnpredictableNonceSequence_advance(uns2)} :
          /\ uns2' = adv.self
          /\ nsLog' = [nsLog EXCEPT !.u2.count = @ + 1,
                                    !.u2.nonce = adv.result]
    /\ UNCHANGED <<cfg_fips, ownVars, sigVars, verVars, marVars, laterVars, pns, uns1,
                   nsKey>>

NextNonce ==
    \/ Predictable_new
    \/ Predictable_starting_from
    \/ Predictable_advance
    \/ Unpredictable_new
    \/ Unpredictable_starting_from
    \/ Unpredictable_using_key
    \/ Unpredictable_using_key_and_position
    \/ Unpredictable_advance1
    \/ Unpredictable_advance2

SpecNonce == InitNonce /\ [][NextNonce]_vars

\* The big-endian bytes of (b + k) mod 2^(8 * Len(b)), by byte-wise addition
\* with carry from the last byte.
RECURSIVE BytesPlus(_, _)
BytesPlus(b, k) ==
    IF b = <<>> THEN <<>>
    ELSE LET n == Len(b)
             sum == b[n] + k
         IN  Append(BytesPlus(SubSeq(b, 1, n - 1), sum \div 256), sum % 256)

\* The 8 big-endian bytes of a starting value, from its limbs.
StartBytes(u) ==
    <<u[1] \div 256, u[1] % 256, u[2] \div 256, u[2] % 256,
      u[3] \div 256, u[3] % 256, u[4] \div 256, u[4] % 256>>

\* C15: after k >= 1 advances of a PredictableNonceSequence started at p, the
\* last advance returned Ok with the 12-byte nonce made of 4 zero bytes and
\* the 8 big-endian bytes of (p + k) mod 2^64, and the counter is that value
\* (it grew by 1 per advance and wraps from 2^64-1 to 0 without an error);
\* new() starts at 0.
C15_PredictableNonce ==
    (nsLog # <<>> /\ nsLog.p.ctor # "none") =>
        LET expected == BytesPlus(StartBytes(nsLog.p.start), nsLog.p.count)
        IN  /\ nsLog.p.ctor = "new" => nsLog.p.start = U64(0, 0, 0, 0)
            /\ StartBytes(pns.position) = expected
            /\ nsLog.p.count >= 1 =>
                  /\ nsLog.p.nonce.tag = "Ok"
                  /\ Len(nsLog.p.nonce.val) = 12
                  /\ nsLog.p.nonce.val = <<0, 0, 0, 0>> \o expected

\* test_predictable, and the wrap: from 2^64-1 the first nonce is all zero.
C15_Witness ==
    /\ nsLog # <<>> /\ nsLog.p.count = 1
    /\ nsLog.p.start = U64(65535, 65535, 65535, 65535)
    /\ pns.position = U64(0, 0, 0, 0)
    /\ nsLog.p.nonce = Ok(<<0, 0, 0, 0, 0, 0, 0, 0, 0, 0, 0, 0>>)

\* uns2 was rebuilt from the key returned with uns1, at the counter uns1
\* started from.
SameKeyAndStart ==
    /\ nsLog # <<>>
    /\ nsLog.u1.ctor # "none" /\ nsLog.u2.ctor # "none"
    /\ uns2.aes_key = nsKey
    /\ nsLog.u2.start = nsLog.u1.start

\* C16: two UnpredictableNonceSequences with the same key and the same
\* starting counter, one from new()/starting_from(p) and one rebuilt with
\* using_key/using_key_and_position from the key returned alongside the
\* first, have returned the same nonce whenever they have been advanced the
\* same number of times, also across the wrap of the counter.
C16_SameKeySameStream ==
    (SameKeyAndStart /\ nsLog.u1.count = nsLog.u2.count) =>
        /\ nsLog.u1.nonce = nsLog.u2.nonce
        /\ uns1 = uns2
        /\ nsLog.u1.count >= 1 =>
              (nsLog.u1.nonce.tag = "Ok" /\ Len(nsLog.u1.nonce.val) = 12)

\* Both sequences started at 2^64-2 and were advanced three times, across
\* the wrap.
C16_Witness ==
    /\ SameKeyAndStart
    /\ nsLog.u1.start = U64(65535, 65535, 65535, 65534)
    /\ nsLog.u1.count = 3 /\ nsLog.u2.count = 3
    /\ uns1.position = U64(0, 0, 0, 1)
    /\ nsLog.u1.nonce = nsLog.u2.nonce /\ nsLog.u1.nonce.tag = "Ok"

-----------------------------------------------------------------------------
(* SpecIndicator: the service-indicator check protocol with several        *)
(* threads, and the digest tests of tests/fips/digest.rs that assert the   *)
(* verdict of each step of Context::new, update, finish.                   *)
(* The native engine keeps one service indicator for the process; a call   *)
(* of an approved service that succeeds advances it, any other call leaves *)
(* it alone.  A checked call takes three steps on its thread: the snapshot *)
(* of the indicator, the native call, the read of the indicator that       *)
(* yields the verdict.  Steps of different threads interleave freely.      *)

Threads == {"t1", "t2"}

\* The number of calls one thread makes outside a digest test.
MaxCalls == 2

\* FipsServiceStatus, as the tests name it (digest.rs:9, 21, 26, 38-47).
FipsServiceStatus == {"ApprovedMode", "NonApprovedMode"}

\* The verdicts of the check: the two statuses, and the one of a failed call.
Verdicts == FipsServiceStatus \cup {"Unexpected"}

NoCall == [api |-> "none", alg |-> "none", checked |-> FALSE, approved |-> FALSE, rc |-> 1]

\* A native service called through indicator_check!: whether the service is
\* an approved one and whether the call succeeds are the engine's.
NativeCalls ==
    {[api |-> "native", alg |-> "none", checked |-> TRUE, approved |-> a, rc |-> rc] : a \in BOOLEAN, rc \in {0, 1}}

\* The digest algorithms the tests import (digest.rs:5-8).
DigestAlgorithms ==
    {"SHA1_FOR_LEGACY_USE_ONLY", "SHA224", "SHA256", "SHA384", "SHA512",
     "SHA512_256", "SHA3_256", "SHA3_384", "SHA3_512"}

\* The digests whose computation the engine counts as an approved service.
ApprovedDigests ==
    {"SHA1_FOR_LEGACY_USE_ONLY", "SHA224", "SHA256", "SHA384", "SHA512",
     "SHA512_256"}

\* Context::new(alg): builds the context; the engine's indicator is not
\* consulted and the status of the thread is left as it was.
Context_new(alg) ==
    [api |-> "Context::new", alg |-> alg, checked |-> FALSE, approved |-> FALSE, rc |-> 1]

\* context.update(data): the engine's update does not set the indicator.
Context_update(alg) ==
    [api |-> "update", alg |-> alg, checked |-> FALSE, approved |-> FALSE, rc |-> 1]

\* context.finish(): the engine's final call, wrapped by the check.
Context_finish(alg) ==
    [api |-> "finish", alg |-> alg, checked |-> TRUE, approved |-> alg \in ApprovedDigests, rc |-> 1]

AssertedStep(call, expect) == [call |-> call, expect |-> expect]

\* Mutant of digest_api: the update step is asserted against $expect.
digest_api_update_expects_finish(alg, expect) ==
    << AssertedStep(Context_new(alg), "ApprovedMode"),
       AssertedStep(Context_update(alg), expect),
       AssertedStep(Context_finish(alg), expect) >>

\* digest_api!($name, $alg, $expect) (digest.rs:14-33): the three calls of
\* the test, each with the status its assertion expects.
digest_api(alg, expect) ==
    << AssertedStep(Context_new(alg), "ApprovedMode"),
       AssertedStep(Context_update(alg), "ApprovedMode"),
       AssertedStep(Context_finish(alg), expect) >>

\* The instantiations of digest_api! (digest.rs:35-47).
DigestTests ==
    { [name |-> "sha1", alg |-> "SHA1_FOR_LEGACY_USE_ONLY", expect |-> "ApprovedMode"],
      [name |-> "sha224", alg |-> "SHA224", expect |-> "ApprovedMode"],
      [name |-> "sha256", alg |-> "SHA256", expect |-> "ApprovedMode"],
      [name |-> "sha384", alg |-> "SHA384", expect |-> "ApprovedMode"],
      [name |-> "sha512", alg |-> "SHA512", expect |-> "ApprovedMode"],
      [name |-> "sha512_256", alg |-> "SHA512_256", expect |-> "ApprovedMode"],
      [name |-> "sha3_256", alg |-> "SHA3_256", expect |-> "NonApprovedMode"],
      [name |-> "sha3_384", alg |-> "SHA3_384", expect |-> "NonApprovedMode"],
      [name |-> "sha3_512", alg |-> "SHA3_512", expect |-> "NonApprovedMode"] }

\* No snapshot taken yet.
NoSnapshot == -1

\* Mutant of snapshot_before: the snapshot of the thread's previous call is
\* kept when there is one.
snapshot_before_cached(previous, current) ==
    IF previous # NoSnapshot THEN previous ELSE current

\* Step 1 of the check: the state of the indicator now, whatever the
\* thread's previous call left in `previous`.
snapshot_before(previous, current) == current

\* Mutant of indicator_verdict: the return code is not looked at.
indicator_verdict_ignores_rc(rc, before, after) ==
    IF after # before THEN "ApprovedMode" ELSE "NonApprovedMode"

\* Step 4 of the check: the verdict of (return code, before, after).
indicator_verdict(rc, before, after) == indicator_check(rc, before, after).verdict

\* The engine's side of a call: a successful call of an approved service
\* advances the indicator.
native_call(call, ind) ==
    IF call.approved /\ call.rc = 1 THEN ind + 1 ELSE ind

\* assert_fips_status_indicator!(call, expect): the status the test sees.
\* A call that is not wrapped by the check leaves the status ApprovedMode.
reported_status(call, verdict) ==
    IF call.checked THEN verdict ELSE "ApprovedMode"

\* What a thread keeps of a finished call: the call, the indicator at its
\* snapshot and at its read, whether another thread's call fell between the
\* two, the verdict, the status the caller sees and the one a test expects.
NoEntry ==
    [call |-> NoCall, before |-> NoSnapshot, after |-> NoSnapshot,
     overlapped |-> FALSE, verdict |-> "none", reported |-> "none",
     expect |-> "none"]

Thread0 ==
    [pc |-> "idle", cur |-> NoCall, test |-> <<>>, name |-> "none",
     before |-> NoSnapshot, overlapped |-> FALSE, done |-> 0, last |-> NoEntry]

InitIndicator ==
    /\ cfg_fips = TRUE
    /\ OwnIdle
    /\ SigIdle
    /\ VerIdle
    /\ MarIdle
    /\ NonceIdle
    /\ KpIdle
    /\ indicator = 0
    /\ thr = [t \in Threads |-> Thread0]

\* A thread in the window of a checked call: the snapshot taken, the
\* indicator not yet read back.
InWindow(t) == thr[t].pc \in {"invoke", "read"}

\* A test function starts on the thread: its three asserted steps.
Run_digest_api(t) ==
    /\ thr[t].pc = "idle"
    /\ thr[t].test = <<>>
    /\ thr[t].done = 0
    /\ \E test \in DigestTests :
         thr' = [thr EXCEPT ![t].test = digest_api(test.alg, test.expect),
                            ![t].name = test.name]
    /\ UNCHANGED <<cfg_fips, ownVars, sigVars, verVars, marVars, nonceVars, kpVars, indicator>>

\* The next call of the running test.
Test_step(t) ==
    /\ thr[t].pc = "idle"
    /\ thr[t].test # <<>>
    /\ thr[t].done < Len(thr[t].test)
    /\ \E step \in {thr[t].test[thr[t].done + 1]} :
         thr' = [thr EXCEPT ![t].cur = step.call,
                            ![t].overlapped = FALSE,
                            ![t].pc = IF step.call.checked THEN "snapshot" ELSE "unchecked"]
    /\ UNCHANGED <<cfg_fips, ownVars, sigVars, verVars, marVars, nonceVars, kpVars, indicator>>

\* A thread outside the tests calls a native service through the check.
Call_native(t) ==
    /\ thr[t].pc = "idle"
    /\ thr[t].test = <<>>
    /\ thr[t].done < MaxCalls
    /\ \E call \in NativeCalls :
         thr' = [thr EXCEPT ![t].cur = call,
                            ![t].overlapped = FALSE,
                            ![t].pc = "snapshot"]
    /\ UNCHANGED <<cfg_fips, ownVars, sigVars, verVars, marVars, nonceVars, kpVars, indicator>>

LogEntry(t, call, before, after, verdict) ==
    [call |-> call, before |-> before, after |-> after,
     overlapped |-> thr[t].overlapped,
     verdict |-> verdict,
     reported |-> reported_status(call, verdict),
     expect |-> IF thr[t].test = <<>> THEN "none"
                ELSE thr[t].test[thr[t].done + 1].expect]

\* A call that is not wrapped: it runs, the indicator is untouched.
Unchecked(t) ==
    /\ thr[t].pc = "unchecked"
    /\ thr' = [thr EXCEPT ![t].pc = "idle",
                          ![t].done = @ + 1,
                          ![t].last = LogEntry(t, thr[t].cur, indicator, indicator, "none")]
    /\ UNCHANGED <<cfg_fips, ownVars, sigVars, verVars, marVars, nonceVars, kpVars, indicator>>

\* Step 1: the snapshot before the call.
Snapshot(t) ==
    /\ thr[t].pc = "snapshot"
    /\ thr' = [thr EXCEPT ![t].pc = "invoke",
                          ![t].before = snapshot_before(@, indicator)]
    /\ UNCHANGED <<cfg_fips, ownVars, sigVars, verVars, marVars, nonceVars, kpVars, indicator>>

\* Step 2: the native call.  Every other thread that is inside its window
\* has this call fall between its snapshot and its read.
Invoke(t) ==
    /\ thr[t].pc = "invoke"
    /\ indicator' = native_call(thr[t].cur, indicator)
    /\ thr' = [u \in Threads |->
                 IF u = t THEN [thr[u] EXCEPT !.pc = "read"]
                 ELSE IF InWindow(u) THEN [thr[u] EXCEPT !.overlapped = TRUE]
                 ELSE thr[u]]
    /\ UNCHANGED <<cfg_fips, ownVars, sigVars, verVars, marVars, nonceVars, kpVars>>

\* Steps 3 and 4: the read after the call and the verdict.
Read(t) ==
    /\ thr[t].pc = "read"
    /\ \E verdict \in {indicator_verdict(thr[t].cur.rc, thr[t].before, indicator)} :
         thr' = [thr EXCEPT ![t].pc = "idle",
                            ![t].done = @ + 1,
                            ![t].last = LogEntry(t, thr[t].cur, thr[t].before, indicator, verdict)]
    /\ UNCHANGED <<cfg_fips, ownVars, sigVars, verVars, marVars, nonceVars, kpVars, indicator>>

NextIndicator ==
    \/ \E t \in Threads : Run_digest_api(t)
    \/ \E t \in Threads : Test_step(t)
    \/ \E t \in Threads : Call_native(t)
    \/ \E t \in Threads : Unchecked(t)
    \/ \E t \in Threads : Snapshot(t)
    \/ \E t \in Threads : Invoke(t)
    \/ \E t \in Threads : Read(t)

SpecIndicator == InitIndicator /\ [][NextIndicator]_vars

\* The threads whose last finished call went through the check.
Checked == {t \in Threads : thr[t].done > 0 /\ thr[t].last.call.checked}

\* C17: every wrapped call gets exactly one of the three verdicts, computed
\* from its return code and the indicator before and after it: Unexpected
\* if and only if the native call failed, otherwise ApprovedMode when the
\* indicator moved between the snapshot and the read and NonApprovedMode
\* when it did not.
C17_ThreeVerdicts ==
    \A t \in Checked :
        LET e == thr[t].last IN
        /\ e.verdict \in Verdicts
        /\ (e.verdict = "Unexpected") <=> (e.call.rc # 1)
        /\ (e.call.rc = 1) =>
             /\ (e.verdict = "ApprovedMode") <=> (e.after # e.before)
             /\ (e.verdict = "NonApprovedMode") <=> (e.after = e.before)

\* A failed call was reported Unexpected on one thread while a successful
\* call of an approved service was reported ApprovedMode on the other.
C17_Witness ==
    \E t, u \in Checked :
        /\ thr[t].last.call.rc = 0
        /\ thr[t].last.call.approved
        /\ thr[t].last.verdict = "Unexpected"
        /\ thr[u].last.call.rc = 1
        /\ thr[u].last.after # thr[u].last.before
        /\ thr[u].last.verdict = "ApprovedMode"

\* The approval status of one call taken alone.
OwnStatus(call) ==
    IF call.rc # 1 THEN "Unexpected"
    ELSE IF call.approved THEN "ApprovedMode"
    ELSE "NonApprovedMode"

\* C18: with the indicator shared by the threads, a checked call that no
\* other thread's checked call fell into (between its snapshot and its
\* read) has the verdict of that call alone, whatever calls came before it
\* on any thread.
C18_SerializedVerdictIsOwn ==
    \A t \in Checked :
        LET e == thr[t].last IN
        ~e.overlapped => e.verdict = OwnStatus(e.call)

\* A thread's second call is of a service that is not approved and is
\* reported NonApprovedMode, although approved calls of both threads
\* advanced the indicator twice before its snapshot.
C18_Witness ==
    \E t, u \in Checked :
        /\ t # u
        /\ thr[t].done = 2
        /\ thr[u].done >= 1
        /\ thr[u].last.verdict = "ApprovedMode"
        /\ ~thr[t].last.call.approved
        /\ thr[t].last.call.rc = 1
        /\ ~thr[t].last.overlapped
        /\ thr[t].last.before >= 2
        /\ thr[t].last.verdict = "NonApprovedMode"

\* The statuses the claim lists for the finish step.
FinishStatus(alg) ==
    IF alg \in {"SHA3_256", "SHA3_384", "SHA3_512"} THEN "NonApprovedMode"
    ELSE "ApprovedMode"

\* The threads whose last finished call was a step of a digest test, run as
\* the tests are run, with no other thread's checked call inside it.
Tested ==
    {t \in Threads : thr[t].done > 0 /\ thr[t].test # <<>> /\ ~thr[t].last.overlapped}

\* C19: in a digest test the calls come in the order Context::new, update,
\* finish; new and update are reported ApprovedMode for every algorithm,
\* finish is reported ApprovedMode for SHA-1, SHA-224, SHA-256, SHA-384,
\* SHA-512 and SHA-512/256 and NonApprovedMode for SHA3-256, SHA3-384 and
\* SHA3-512, and each report is the one the test asserts.
C19_DigestSequence ==
    \A t \in Tested :
        LET e == thr[t].last IN
        /\ thr[t].done \in 1..3
        /\ e.call.api = <<"Context::new", "update", "finish">>[thr[t].done]
        /\ e.call.alg \in DigestAlgorithms
        /\ e.call.alg = thr[t].test[1].call.alg
        /\ e.reported = IF thr[t].done = 3 THEN FinishStatus(e.call.alg) ELSE "ApprovedMode"
        /\ e.reported = e.expect

\* A SHA-3 test and a SHA-2 test have both run to the end on two threads,
\* the SHA-3 one after the other had advanced the indicator.
C19_Witness ==
    \E t, u \in Tested :
        /\ thr[t].name = "sha3_256" /\ thr[t].done = 3
        /\ thr[u].name = "sha512_256" /\ thr[u].done = 3
        /\ thr[t].last.call.api = "finish"
        /\ thr[t].last.reported = "NonApprovedMode"
        /\ thr[u].last.reported = "ApprovedMode"
        /\ thr[t].last.before = 1

-----------------------------------------------------------------------------
(* SpecKeyPair: the rsa KeyPair (rsa/key.rs).  A KeyPair is built from a   *)
(* PKCS#8 document or generated; it is Sync, so threads call public_key,   *)
(* sign, public_modulus_len and as_der on the same KeyPair at once.  Each  *)
(* call is entered by one step and returns by another, so the calls of    *)
(* two threads on one KeyPair overlap.                                     *)

KeyPairSlots == {"kp1", "kp2"}

\* A native EVP_PKEY, by its type, its size and its public components.
RsaKey(type, bits, n, e) == [type |-> type, bits |-> bits, n |-> n, e |-> e]

NoKey == RsaKey("none", 0, <<>>, <<>>)

\* A PKCS#8 document, by what it encodes.
Pkcs8(form, key) == [form |-> form, key |-> key]

NoDoc == Pkcs8("none", NoKey)

\* RSA keys of an accepted size, one too small, one too large, an RSA-PSS
\* key, an EC key, and bytes that are no PKCS#8 document.
Pkcs8Docs ==
    { Pkcs8("pkcs8", RsaKey("RSA", 2048, <<195, 7>>, <<1, 0, 1>>)),
      Pkcs8("pkcs8", RsaKey("RSA", 8192, <<1, 0, 1>>, <<3>>)),
      Pkcs8("pkcs8", RsaKey("RSA_PSS", 2048, <<195, 7>>, <<3>>)),
      Pkcs8("pkcs8", RsaKey("RSA", 1024, <<195, 7>>, <<3>>)),
      Pkcs8("pkcs8", RsaKey("RSA", 16384, <<1, 0, 1>>, <<1, 0, 1>>)),
      Pkcs8("pkcs8", RsaKey("EC", 256, <<>>, <<>>)),
      Pkcs8("garbage", NoKey) }

\* KeySize::bits (key.rs:72-79).
KeySizeBits == {2048, 3072, 4096, 8192}

\* The moduli the engine may come up with when it generates a key.
GeneratedModuli == {<<195, 7>>, <<1, 0, 1>>}

\* LcPtr::<EVP_PKEY>::parse_rfc5208_private_key(pkcs8, EVP_PKEY_RSA).
parse_rfc5208_private_key(pkcs8) ==
    IF pkcs8.form = "pkcs8" /\ pkcs8.key.type = "RSA" THEN Ok(pkcs8.key)
    ELSE Err("KeyRejected")

\* encoding::rfc8017::decode_private_key_der(input): the key the bytes
\* encode, of whatever type the engine makes of them.
decode_private_key_der(der) ==
    IF der.form = "pkcs8" THEN Ok(der.key) ELSE Err("KeyRejected")

\* generate_rsa_key (key.rs:449-459): the engine picks the key, or fails.
generate_rsa_key(bits, n, engine_ok) ==
    IF engine_ok THEN Ok(RsaKey("RSA", bits, n, <<1, 0, 1>>)) ELSE Err("Unspecified")

\* is_rsa_key (key.rs:470-473).
is_rsa_key(key) == key.type = "RSA" \/ key.type = "RSA_PSS"

\* Mutant of validate_private_key: the upper limit of the size is left out.
validate_private_key_no_upper_limit(key) ==
    IF ~is_rsa_key(key) THEN Err("KeyRejected")
    ELSE IF key.bits >= 2048 THEN Ok(<<>>)
    ELSE Err("KeyRejected")

\* KeyPair::validate_private_key (key.rs:173-181).
validate_private_key(key) ==
    IF ~is_rsa_key(key) THEN Err("KeyRejected")
    ELSE IF key.bits >= 2048 /\ key.bits <= 8192 THEN Ok(<<>>)
    ELSE Err("KeyRejected")

\* encoding::rfc8017::encode_public_key_der: RSAPublicKey ::= SEQUENCE {
\* INTEGER n, INTEGER e }, or the engine's failure.
encode_public_key_der(evp_pkey, engine_ok) ==
    LET body == DerInteger(evp_pkey.n) \o DerInteger(evp_pkey.e)
    IN  IF engine_ok THEN Ok(<<48>> \o DerLen(Len(body)) \o body)
        ELSE Err("Unspecified")

\* PublicKey::new (key.rs:289-309), without the "ring-io" fields.
PublicKey_new(evp_pkey, engine_ok) == encode_public_key_der(evp_pkey, engine_ok)

KeyPair(evp_pkey, serialized_public_key) ==
    [evp_pkey |-> evp_pkey, serialized_public_key |-> serialized_public_key]

NoKeyPair == KeyPair(NoKey, <<>>)

\* What a constructor hands back: the Result and the calls it made on the
\* native key, in order.
Built_kp(res, calls) == [res |-> res, calls |-> calls]

\* Mutant of KeyPair_new: the public key is serialized without the
\* validation of the key.
KeyPair_new_unvalidated(evp_pkey, engine_ok) ==
    LET pk == PublicKey_new(evp_pkey, engine_ok)
    IN  IF pk.tag = "Err" THEN Built_kp(Err("KeyRejected"), <<"PublicKey::new">>)
        ELSE Built_kp(Ok(KeyPair(evp_pkey, pk.val)), <<"PublicKey::new">>)

\* KeyPair::new (key.rs:100-107).
KeyPair_new(evp_pkey, engine_ok) ==
    IF validate_private_key(evp_pkey).tag = "Err"
    THEN Built_kp(Err("KeyRejected"), <<"validate_private_key">>)
    ELSE LET pk == PublicKey_new(evp_pkey, engine_ok)
         IN  IF pk.tag = "Err"
             THEN Built_kp(Err("KeyRejected"), <<"validate_private_key", "PublicKey::new">>)
             ELSE Built_kp(Ok(KeyPair(evp_pkey, pk.val)), <<"validate_private_key", "PublicKey::new">>)

\* KeyPair::from_pkcs8 (key.rs:152-155).
KeyPair_from_pkcs8(pkcs8, engine_ok) ==
    LET key == parse_rfc5208_private_key(pkcs8)
    IN  IF key.tag = "Err" THEN Built_kp(Err("KeyRejected"), <<>>)
        ELSE KeyPair_new(key.val, engine_ok)

\* KeyPair::from_der (key.rs:161-164).
KeyPair_from_der(der, engine_ok) ==
    LET key == decode_private_key_der(der)
    IN  IF key.tag = "Err" THEN Built_kp(Err("KeyRejected"), <<>>)
        ELSE KeyPair_new(key.val, engine_ok)

\* KeyPair::generate (key.rs:119-122).
KeyPair_generate(bits, n, keygen_ok, engine_ok) ==
    LET private_key == generate_rsa_key(bits, n, keygen_ok)
    IN  IF private_key.tag = "Err" THEN Built_kp(Err("Unspecified"), <<>>)
        ELSE LET kp == KeyPair_new(private_key.val, engine_ok)
             IN  IF kp.res.tag = "Err" THEN Built_kp(Err("Unspecified"), kp.calls)
                 ELSE kp

\* What a method called on &self leaves of the KeyPair, and what it returns.
Called(self, ret) == [self |-> self, result |-> ret]

\* Mutant of KeyPair_public_key: the buffer is moved out of the KeyPair.
KeyPair_public_key_take(self) ==
    Called([self EXCEPT !.serialized_public_key = <<>>], Ok(self.serialized_public_key))

\* KeyPair::public_key (key.rs:251-257) and PublicKey::as_ref (321-326):
\* the bytes behind the reference it returns.
KeyPair_public_key(self) == Called(self, Ok(self.serialized_public_key))

\* RSA_size: the length of the modulus in bytes.
RSA_size(evp_pkey) == evp_pkey.bits \div 8

\* KeyPair::public_modulus_len (key.rs:230-239).
KeyPair_public_modulus_len(self) == Called(self, Ok(RSA_size(self.evp_pkey)))

\* KeyPair::sign (key.rs:204-224): the engine signs, then copy_from_slice
\* into the caller's buffer, which panics unless the lengths are equal.
KeyPair_sign(self, signature_len, engine_ok) ==
    IF ~engine_ok THEN Called(self, Err("Unspecified"))
    ELSE IF signature_len # RSA_size(self.evp_pkey) THEN Called(self, Panic)
    ELSE Called(self, Ok(RSA_size(self.evp_pkey)))

\* KeyPair::as_der (key.rs:259-265): the PKCS#8 v1 document of the key.
KeyPair_as_der(self, engine_ok) ==
    IF engine_ok THEN Called(self, Ok(Pkcs8("pkcs8", self.evp_pkey)))
    ELSE Called(self, Err("Unspecified"))

\* A slot: whether a KeyPair was built in it, from what, the KeyPair, its
\* serialized public key as construction left it, the calls construction
\* made on the native key, the constructor and the error it returned.
NoSlot ==
    [state |-> "none", doc |-> NoDoc, kp |-> NoKeyPair,
     at_construction |-> <<>>, calls |-> <<>>, via |-> "none", err |-> ""]

KpThread0 == [pc |-> "idle", slot |-> "none", arg |-> 0, last |-> "none", ret |-> Ok(<<>>)]

InitKeyPair ==
    /\ cfg_fips = FALSE
    /\ OwnIdle
    /\ SigIdle
    /\ VerIdle
    /\ MarIdle
    /\ NonceIdle
    /\ IndIdle
    /\ kps = [s \in KeyPairSlots |-> NoSlot]
    /\ kpThr = [t \in Threads |-> KpThread0]

Constructed(via, doc, built) ==
    IF built.res.tag = "Ok"
    THEN [state |-> "built", doc |-> doc, kp |-> built.res.val,
          at_construction |-> built.res.val.serialized_public_key,
          calls |-> built.calls, via |-> via, err |-> ""]
    ELSE [state |-> "rejected", doc |-> doc, kp |-> NoKeyPair,
          at_construction |-> <<>>, calls |-> built.calls, via |-> via,
          err |-> built.res.err]

Call_from_pkcs8(s) ==
    /\ kps[s].state = "none"
    /\ \E pkcs8 \in Pkcs8Docs, engine_ok \in BOOLEAN :
         kps' = [kps EXCEPT ![s] = Constructed("from_pkcs8", pkcs8, KeyPair_from_pkcs8(pkcs8, engine_ok))]
    /\ UNCHANGED <<cfg_fips, ownVars, sigVars, verVars, marVars, nonceVars, indVars, kpThr>>

Call_from_der(s) ==
    /\ kps[s].state = "none"
    /\ \E der \in Pkcs8Docs, engine_ok \in BOOLEAN :
         kps' = [kps EXCEPT ![s] = Constructed("from_der", der, KeyPair_from_der(der, engine_ok))]
    /\ UNCHANGED <<cfg_fips, ownVars, sigVars, verVars, marVars, nonceVars, indVars, kpThr>>

Call_generate(s) ==
    /\ kps[s].state = "none"
    /\ \E bits \in KeySizeBits, n \in GeneratedModuli, keygen_ok, engine_ok \in BOOLEAN :
         kps' = [kps EXCEPT ![s] = Constructed("generate", NoDoc, KeyPair_generate(bits, n, keygen_ok, engine_ok))]
    /\ UNCHANGED <<cfg_fips, ownVars, sigVars, verVars, marVars, nonceVars, indVars, kpThr>>

Methods == {"public_key", "sign", "public_modulus_len", "as_der"}

\* A thread enters a method of a KeyPair it shares: &self is borrowed.  The
\* argument is the length of the signature buffer, or whether the engine
\* succeeds.
Enter(t) ==
    /\ kpThr[t].pc = "idle"
    /\ \E s \in KeyPairSlots, m \in Methods, arg \in {0, 1, 2, 3} :
         /\ kps[s].state = "built"
         /\ m \in {"public_key", "public_modulus_len"} => arg = 0
         /\ m = "as_der" => arg \in {0, 1}
         /\ arg = 3 => m = "sign"
         /\ kpThr' = [kpThr EXCEPT ![t] = [KpThread0 EXCEPT !.pc = m, !.slot = s, !.arg = arg]]
    /\ UNCHANGED <<cfg_fips, ownVars, sigVars, verVars, marVars, nonceVars, indVars, kps>>

\* The method returns: what it left of the KeyPair and what it returned.
Returned(t, m, called) ==
    /\ kps' = [kps EXCEPT ![kpThr[t].slot].kp = called.self]
    /\ kpThr' = [kpThr EXCEPT ![t].pc = "idle", ![t].last = m, ![t].ret = called.result]

Return_public_key(t) ==
    /\ kpThr[t].pc = "public_key"
    /\ Returned(t, "public_key", KeyPair_public_key(kps[kpThr[t].slot].kp))
    /\ UNCHANGED <<cfg_fips, ownVars, sigVars, verVars, marVars, nonceVars, indVars>>

\* The length of the caller's signature buffer: that of the modulus (arg 0
\* and 2), one byte short (arg 1) or one byte long (arg 3).
signature_len(self, arg) ==
    RSA_size(self.evp_pkey) + (IF arg = 1 THEN -1 ELSE IF arg = 3 THEN 1 ELSE 0)

\* The engine fails when arg is 2.
Return_sign(t) ==
    /\ kpThr[t].pc = "sign"
    /\ \E self \in {kps[kpThr[t].slot].kp} :
         Returned(t, "sign",
                  KeyPair_sign(self, signature_len(self, kpThr[t].arg), kpThr[t].arg # 2))
    /\ UNCHANGED <<cfg_fips, ownVars, sigVars, verVars, marVars, nonceVars, indVars>>

Return_public_modulus_len(t) ==
    /\ kpThr[t].pc = "public_modulus_len"
    /\ Returned(t, "public_modulus_len", KeyPair_public_modulus_len(kps[kpThr[t].slot].kp))
    /\ UNCHANGED <<cfg_fips, ownVars, sigVars, verVars, marVars, nonceVars, indVars>>

Return_as_der(t) ==
    /\ kpThr[t].pc = "as_der"
    /\ Returned(t, "as_der", KeyPair_as_der(kps[kpThr[t].slot].kp, kpThr[t].arg = 0))
    /\ UNCHANGED <<cfg_fips, ownVars, sigVars, verVars, marVars, nonceVars, indVars>>

NextKeyPair ==
    \/ \E s \in KeyPairSlots : Call_from_pkcs8(s)
    \/ \E s \in KeyPairSlots : Call_from_der(s)
    \/ \E s \in KeyPairSlots : Call_generate(s)
    \/ \E t \in Threads : Enter(t)
    \/ \E t \in Threads : Return_public_key(t)
    \/ \E t \in Threads : Return_sign(t)
    \/ \E t \in Threads : Return_public_modulus_len(t)
    \/ \E t \in Threads : Return_as_der(t)

SpecKeyPair == InitKeyPair /\ [][NextKeyPair]_vars

BuiltSlots == {s \in KeyPairSlots : kps[s].state = "built"}

\* C20: the serialized public key of a KeyPair is computed once, at
\* construction, from the native key that validation accepted; it stays as
\* construction left it through every later public_key, sign,
\* public_modulus_len and as_der, whichever threads make the calls and
\* however they overlap; a thread that reads it gets those bytes; and two
\* KeyPairs built from the same PKCS#8 document have the same bytes.
C20_PublicKeyFixedAtConstruction ==
    /\ \A s \in BuiltSlots :
         /\ kps[s].calls = <<"validate_private_key", "PublicKey::new">>
         /\ validate_private_key(kps[s].kp.evp_pkey).tag = "Ok"
         /\ kps[s].at_construction = encode_public_key_der(kps[s].kp.evp_pkey, TRUE).val
         /\ kps[s].kp.serialized_public_key = kps[s].at_construction
    /\ \A t \in Threads :
         (kpThr[t].pc = "idle" /\ kpThr[t].last = "public_key") =>
             kpThr[t].ret = Ok(kps[kpThr[t].slot].at_construction)
    /\ \A s1, s2 \in BuiltSlots :
         (kps[s1].doc = kps[s2].doc /\ kps[s1].doc # NoDoc) =>
             kps[s1].kp.serialized_public_key = kps[s2].kp.serialized_public_key

\* Two KeyPairs were built from the same document; while one thread is
\* inside sign on the first, the other has called public_key on it and read
\* the bytes.
C20_Witness ==
    /\ BuiltSlots = KeyPairSlots
    /\ kps["kp1"].doc = kps["kp2"].doc
    /\ kps["kp1"].doc # NoDoc
    /\ kps["kp1"].via = "from_pkcs8"
    /\ kps["kp2"].via = "from_pkcs8"
    /\ kps["kp1"].kp.serialized_public_key = <<48, 10, 2, 3, 0, 195, 7, 2, 3, 1, 0, 1>>
    /\ kpThr["t1"].slot = "kp1" /\ kpThr["t1"].pc = "sign"
    /\ kpThr["t2"].slot = "kp1" /\ kpThr["t2"].pc = "idle"
    /\ kpThr["t2"].last = "public_key"
    /\ kpThr["t2"].ret = Ok(kps["kp2"].kp.serialized_public_key)

\* A key that KeyPair accepts: RSA or RSA-PSS, of 2048 to 8192 bits.
Acceptable(key) ==
    /\ key.type \in {"RSA", "RSA_PSS"}
    /\ key.bits >= 2048
    /\ key.bits <= 8192

\* The slots in which a constructor has returned.
TriedSlots == {s \in KeyPairSlots : kps[s].state # "none"}

\* C21: generate, from_pkcs8 and from_der return a KeyPair only for a key
\* of type RSA or RSA-PSS and of 2048 to 8192 bits; from_pkcs8 and from_der
\* reject a document holding any other key with KeyRejected; and whenever a
\* key is rejected for its type or size the public key has not been
\* serialized.
C21_OnlyAcceptableKeys ==
    \A s \in TriedSlots :
        /\ kps[s].state = "built" => Acceptable(kps[s].kp.evp_pkey)
        /\ (kps[s].via \in {"from_pkcs8", "from_der"} /\ ~Acceptable(kps[s].doc.key)) =>
             /\ kps[s].state = "rejected"
             /\ kps[s].err = "KeyRejected"
             /\ \A i \in 1..Len(kps[s].calls) : kps[s].calls[i] # "PublicKey::new"

\* from_der has returned a KeyPair for an RSA-PSS key, and an RSA key of
\* 16384 bits was parsed and then rejected by the validation alone.
C21_Witness ==
    \E s1, s2 \in TriedSlots :
        /\ kps[s1].state = "built"
        /\ kps[s1].via = "from_der"
        /\ kps[s1].kp.evp_pkey.type = "RSA_PSS"
        /\ kps[s2].state = "rejected"
        /\ kps[s2].doc.key.type = "RSA"
        /\ kps[s2].doc.key.bits = 16384
        /\ kps[s2].calls = <<"validate_private_key">>
        /\ kps[s2].err = "KeyRejected"

\* ---------------------------------------------------------------------
\* C26
\* ---------------------------------------------------------------------

\* The threads that have returned from KeyPair::sign.
SignReturned == {t \in Threads : kpThr[t].pc = "idle" /\ kpThr[t].last = "sign"}

\* C26: KeyPair::sign never panics: whatever the length of the caller's
\* signature buffer, it returns Ok with a signature of exactly
\* public_modulus_len() bytes or Err(Unspecified), and a buffer whose length
\* differs from public_modulus_len() gets Err (the panic of copy_from_slice
\* writes nothing, and neither does an Err, so the buffer is unchanged
\* unless the result is Ok).
C26_SignNeverPanics ==
    \A t \in SignReturned :
        LET self == kps[kpThr[t].slot].kp
            n    == KeyPair_public_modulus_len(self).result.val
            ret  == kpThr[t].ret
        IN  /\ ret.tag \in {"Ok", "Err"}
            /\ ret.tag = "Ok" => ret.val = n /\ signature_len(self, kpThr[t].arg) = n
            /\ ret.tag = "Err" => ret.err = "Unspecified"
            /\ signature_len(self, kpThr[t].arg) # n => ret = Err("Unspecified")

\* A buffer one byte shorter than the modulus: the engine signs and
\* copy_from_slice panics.
C26_Panicked ==
    \E t \in SignReturned :
        /\ kpThr[t].arg = 1
        /\ signature_len(kps[kpThr[t].slot].kp, 1) = RSA_size(kps[kpThr[t].slot].kp.evp_pkey) - 1
        /\ kpThr[t].ret = Panic

=============================================================================
